---- MODULE Spec2Model ----
(***************************************************************************)
(* ConnectTool: the peer registry of SteamNetworkingManager                *)
(* (src/steam/steam_networking_manager.cpp/.h) as a state machine.         *)
(*                                                                         *)
(* Threads call the manager's public operations and the two Steam          *)
(* callbacks concurrently.  Every statement that touches shared state or   *)
(* calls the transport / the VPN bridge is a step of its own; a            *)
(* std::lock_guard acquisition is folded into the first statement of its   *)
(* critical section (nothing can interleave between the two, since every   *)
(* other critical section is excluded and unlocked readers see the same    *)
(* set before and after the acquisition).                                  *)
(*                                                                         *)
(* The transport (ISteamNetworkingMessages) is the environment: a send     *)
(* returns OK or not, a session is open after an OK send or an accept and  *)
(* closed after CloseSessionWithUser.                                      *)
(***************************************************************************)
EXTENDS Integers, Sequences, FiniteSets, TLC

\* --------------------------------------------------------------- instance

\* The threads that call into the manager concurrently (callers of the public
\* operations and the Steam callback dispatcher alike).  Each makes any number
\* of calls, one after the other; all their interleavings are explored.
Threads == {1, 2}

\* ------------------------------------------------------------- identities

\* SteamUser()->GetSteamID(): the local identity (spec scenario S1: self=101).
Self == 101

\* The remote identities the callers and the transport may name.
Others == {202, 303}

CSteamID == {Self} \cup Others

\* static constexpr int VPN_CHANNEL = 0;
VPN_CHANNEL == 0

\* VpnMessageType::SESSION_HELLO (net/vpn_protocol.h; wire value from the spec).
SESSION_HELLO == 1

HelloFlagsReliableOnly == {"Reliable"}

\* k_nSteamNetworkingSend_Reliable | k_nSteamNetworkingSend_AutoRestartBrokenSession
HelloFlags == {"Reliable", "AutoRestartBrokenSession"}

\* VpnMessageHeader helloMsg; helloMsg.type = SESSION_HELLO; helloMsg.length = 0;
HelloMsg == [type |-> SESSION_HELLO, length |-> 0, payload |-> <<>>]

\* The opaque buffer a caller hands to sendMessageToUser / broadcastMessage.
UserMsg == [type |-> 2, length |-> 1, payload |-> <<69>>]

\* The flag words callers pass to sendMessageToUser / broadcastMessage.
UserFlags == {{}, {"Reliable"}}

\* ------------------------------------------------------- session info

\* ESteamNetworkingConnectionState
ConnectionStates == {"None", "Connecting", "FindingRoute", "Connected",
                     "ClosedByPeer", "ProblemDetectedLocally"}

\* SteamNetConnectionRealTimeStatus_t::m_nPing, in ms.
Pings == {0, 35}

\* SteamNetConnectionInfo_t::m_nFlags, as the set of its bits that are set.
InfoFlags == SUBSET {"Relayed", "Fast"}

SessionInfos == [state : ConnectionStates, ping : Pings, flags : InfoFlags]

\* No session with the peer.
NoSession == [state |-> "None", ping |-> 0, flags |-> {}]

\* ------------------------------------------------------------ poll engine

\* static constexpr std::chrono::microseconds MIN_POLL_INTERVAL{100};
MIN_POLL_INTERVAL == 100

\* static constexpr std::chrono::microseconds MAX_POLL_INTERVAL{1000};
MAX_POLL_INTERVAL == 1000

\* static constexpr std::chrono::microseconds POLL_INCREMENT{100};
POLL_INCREMENT == 100

\* Messages the transport holds for the VPN channel at any one time.
MaxInbox == 2

\* Messages one tick drains at most (the spec's bounded batch).
MaxBatch == 2

\* Consecutive empty ticks that are told apart.
MaxIdleRun == 20

\* ------------------------------------------------------------------ state

VARIABLES
    peers,            \* std::set<CSteamID> peers_
    mutex,            \* peersMutex_: 0 when free, else the holding thread
    iface,            \* m_pMessagesInterface != nullptr
    messageHandler,   \* messageHandler_ != nullptr
    vpnBridge,        \* vpnBridge_ != nullptr
    steamMessages,    \* environment: SteamNetworkingMessages() != nullptr
    sessions,         \* environment: peers the transport has a session with
    crashed,          \* the process died on a null dereference
    pc,               \* per thread: the statement it is about to execute
    arg,              \* per thread: the peerID argument of the running call
    flags,            \* per thread: the flags argument of the running call
    isNewPeer,        \* per thread: addPeer's local isNewPeer
    iter,             \* per thread: peers the running range-for has yet to visit
    retval,           \* per thread: what the last value-returning call returned
    ev,               \* the transport / bridge call made by the last step
    trace,            \* per thread: the calls made so far by the running call
    pre,              \* per thread: peers_ when the running call took the mutex
                      \* (addPeer called right after an addPeer of the same
                      \* peer: peers_ as that call left it)
    removed,          \* peers whose removePeer returned, no addPeer invoked since
    helloDebt,        \* per peer: absent->present transitions minus HELLOs sent
    solo,             \* per thread: "no", "solo", "second" (see Invoke)
    prevAdd,          \* the peer of the addPeer that just returned undisturbed
    running,          \* SteamMessageHandler::running_
    currentPollInterval, \* SteamMessageHandler::currentPollInterval_, in us
    externalContext,  \* ioContext_ was supplied through setIoContext
    ioThread,         \* ioThread_ is a running thread of the engine's own
    pollTimer,        \* pollTimer_: "none" or "armed"
    wk,               \* the engine's worker: "idle", "drain" or "sched"
    inbox,            \* environment: messages waiting on the VPN channel
    got,              \* messages the tick in progress has drained
    idleRun,          \* consecutive ticks so far that drained nothing
    stopped,          \* SteamMessageHandler::stop() returned, no start() since
    dying,            \* ~SteamNetworkingManager() has been entered
    sessionInfo,      \* environment, per peer: what GetSessionConnectionInfo reports
    platform,         \* the TunInterface create_tun() made: "linux", "macos"; "none" before
    fd,               \* fd_
    deviceName,       \* deviceName_, as its characters
    utunNumber,       \* TunMacOS::utunNumber_
    mtu,              \* mtu_
    lastError,        \* lastError_
    kfds,             \* environment: descriptors the kernel holds open for us
    tunRet,           \* what the last TunInterface call was given and returned
    rejected,         \* the kernel has rejected an open() since the last close
    nonBlocking,      \* O_NONBLOCK is set on the descriptor fd_
    nIn,              \* inbound messages the bridge has been handed so far
    lastIn,           \* the last of them: its sender, its bytes, the verdict
    tunWrites,        \* the payloads the bridge has written to the TunDevice
    replies,          \* the frames the bridge has sent back, with their peers
    malformed,        \* the bridge's counter of malformed frames
    reachable,        \* peers a SESSION_HELLO was recorded for
    pongSeen,         \* peers a PONG was recorded for
    watch,            \* the bridge's notifications are being recorded
    lastNote          \* per peer, while recorded: the last notification the
                      \* bridge got for it, "joined" or "left"; "none" before

mgrVars == <<peers, mutex, iface, messageHandler, vpnBridge>>
envVars == <<steamMessages, sessions, crashed>>
thrVars == <<pc, arg, flags, isNewPeer, iter, retval>>
obsVars == <<ev, trace, pre, removed, helloDebt, solo, prevAdd>>
pollVars == <<running, currentPollInterval, externalContext, ioThread, pollTimer,
              wk, inbox, got, idleRun, stopped>>
\* What the registry operations leave alone.
tunVars == <<platform, fd, deviceName, utunNumber, mtu, lastError, kfds, tunRet,
             rejected, nonBlocking>>
bridgeVars == <<nIn, lastIn, tunWrites, replies, malformed, reachable, pongSeen>>
\* What a notification to the bridge leaves alone.
quietVars == <<pollVars, dying, sessionInfo, tunVars, bridgeVars, watch>>
farVars == <<quietVars, lastNote>>
vars == <<mgrVars, envVars, thrVars, obsVars, farVars>>

NoEv == [kind |-> "none"]

NoPeer == {}

\* The least element of a non-empty set of identities: std::set iterates in
\* ascending order.
Min(S) == CHOOSE x \in S : \A y \in S : x <= y

Range(s) == {s[i] : i \in 1..Len(s)}

Count(s, e) == Cardinality({i \in 1..Len(s) : s[i] = e})


NoRet == [op |-> "none"]

\* --------------------------------------------------------------- helpers

Goto(t, l) == pc' = [pc EXCEPT ![t] = l]

OthersIdle(t) == \A u \in Threads \ {t} : pc[u] = "idle"

\* A call enters the manager.  It is "solo" when no other call is running, and
\* the "second" of two addPeer(p) in a row when the call before it was an
\* addPeer(p) that ran from call to return with no other call running.
Invoke(t, isAdd, p) ==
    /\ ~crashed
    /\ ~dying
    /\ pc[t] = "idle"
    /\ arg' = [arg EXCEPT ![t] = p]
    /\ solo' = [u \in Threads |->
                  IF u # t \/ ~OthersIdle(t) THEN "no"
                  ELSE IF isAdd /\ prevAdd = {p} THEN "second" ELSE "solo"]
    /\ prevAdd' = NoPeer
    /\ removed' = IF isAdd THEN removed \ {p} ELSE removed

\* A call returns to its caller: its locals go out of scope.
Return(t, isAdd) ==
    /\ ~crashed
    /\ Goto(t, "idle")
    /\ prevAdd' = IF isAdd /\ solo[t] # "no" /\ arg[t] # Self
                  THEN {arg[t]} ELSE NoPeer
    /\ solo' = [solo EXCEPT ![t] = "no"]
    /\ arg' = [arg EXCEPT ![t] = Self]
    /\ flags' = [flags EXCEPT ![t] = {}]
    /\ isNewPeer' = [isNewPeer EXCEPT ![t] = FALSE]
    /\ iter' = [iter EXCEPT ![t] = {}]
    /\ retval' = [retval EXCEPT ![t] = NoRet]
    /\ trace' = [trace EXCEPT ![t] = <<>>]
    /\ pre' = [pre EXCEPT ![t] = {}]
    /\ ev' = NoEv

\* A statement in the middle of a call.
At(t, l) == ~crashed /\ pc[t] = l

\* The statement calls the transport or the bridge.
Emit(t, kind, p, m, f) ==
    /\ ev' = [kind |-> kind, to |-> p, by |-> t, msg |-> m, flags |-> f,
              channel |-> VPN_CHANNEL]
    /\ trace' = [trace EXCEPT ![t] = Append(@, <<kind, p>>)]

\* The statement makes no call; `note` records a branch not taken.
Skip(t, note, p) ==
    /\ ev' = NoEv
    /\ trace' = [trace EXCEPT ![t] = Append(@, <<note, p>>)]

Quiet == ev' = NoEv /\ UNCHANGED trace

\* The bridge gets a notification for p, or none when there is no bridge.
Note(what, p) ==
    lastNote' = IF vpnBridge /\ watch THEN [lastNote EXCEPT ![p] = what]
                ELSE lastNote

\* m_pMessagesInterface->...: a call through a null pointer kills the process.
Crash ==
    /\ crashed' = TRUE
    /\ UNCHANGED <<mgrVars, farVars, steamMessages, sessions, thrVars, obsVars>>

\* std::lock_guard<std::mutex> lock(peersMutex_);
Lock(t) == mutex = 0 /\ mutex' = t /\ pre' = [pre EXCEPT ![t] = peers]

Unlock(t) == mutex' = 0

\* ISteamNetworkingMessages::SendMessageToUser: the session with p is opened
\* implicitly by a send the transport accepts.
TransportSend(p, ok) == sessions' = IF ok THEN sessions \cup {p} ELSE sessions

\* ISteamNetworkingMessages::CloseSessionWithUser
TransportClose(p) == sessions' = sessions \ {p}

\* ISteamNetworkingMessages::AcceptSessionWithUser
TransportAccept(p) == sessions' = sessions \cup {p}

\* SteamMessageHandler::SteamMessageHandler: the engine is created stopped,
\* on no executor, with the shortest interval.
PollConstructed ==
    /\ running = FALSE
    /\ currentPollInterval = MIN_POLL_INTERVAL
    /\ externalContext = FALSE
    /\ ioThread = FALSE
    /\ pollTimer = "none"
    /\ wk = "idle"
    /\ got = 0
    /\ idleRun = 0
    /\ stopped = FALSE

\* ---------------------------------------------------------------- Init

Init ==
    /\ peers = {}
    /\ mutex = 0
    /\ iface = FALSE
    /\ messageHandler = FALSE
    /\ vpnBridge = FALSE
    /\ steamMessages \in BOOLEAN
    /\ sessions = {}
    /\ crashed = FALSE
    /\ pc = [t \in Threads |-> "idle"]
    /\ arg = [t \in Threads |-> Self]
    /\ flags = [t \in Threads |-> {}]
    /\ isNewPeer = [t \in Threads |-> FALSE]
    /\ iter = [t \in Threads |-> {}]
    /\ retval = [t \in Threads |-> NoRet]
    /\ ev = NoEv
    /\ trace = [t \in Threads |-> <<>>]
    /\ pre = [t \in Threads |-> {}]
    /\ removed = {}
    /\ helloDebt = [p \in CSteamID |-> 0]
    /\ solo = [t \in Threads |-> "no"]
    /\ prevAdd = NoPeer
    /\ PollConstructed
    /\ inbox = 0
    /\ dying = FALSE
    /\ sessionInfo = [p \in Others |-> NoSession]
    /\ platform = "none"
    /\ fd = -1
    /\ deviceName = <<>>
    /\ utunNumber = -1
    /\ mtu = 1500
    /\ lastError = ""
    /\ kfds = {}
    /\ tunRet = [op |-> "none"]
    /\ rejected = FALSE
    /\ nonBlocking = FALSE
    /\ nIn = 0
    /\ lastIn = [verdict |-> "none"]
    /\ tunWrites = <<>>
    /\ replies = <<>>
    /\ malformed = 0
    /\ reachable = {}
    /\ pongSeen = {}
    /\ watch = FALSE
    /\ lastNote = [p \in Others |-> "none"]


\* ------------------------------------------------------------- addPeer

IsSelfNever(p) == FALSE

\* peerID == SteamUser()->GetSteamID()
IsSelf(p) == p = Self

InsertSecondAlways(S, p) == TRUE

\* peers_.insert(peerID).second: whether the insertion took place.
InsertSecond(S, p) == p \notin S

MutexAfterInsertHeld(t) == t

\* The block around addPeer's lock_guard ends right after the insert.
MutexAfterInsert(t) == 0

\* void addPeer(CSteamID peerID): if (peerID == SteamUser()->GetSteamID()) return;
AddPeerCall(t, p) ==
    /\ Invoke(t, TRUE, p)
    /\ Goto(t, IF IsSelf(p) THEN "add_ret" ELSE "add_insert")
    /\ pre' = [pre EXCEPT ![t] = IF solo'[t] = "second" THEN peers ELSE {}]
    /\ Quiet
    /\ UNCHANGED <<mgrVars, envVars, farVars, flags, isNewPeer, iter, retval, helloDebt>>

\* { lock_guard lock(peersMutex_); isNewPeer = peers_.insert(peerID).second; }
AddPeerInsert(t) ==
    /\ At(t, "add_insert")
    /\ mutex = 0
    /\ isNewPeer' = [isNewPeer EXCEPT ![t] = InsertSecond(peers, arg[t])]
    /\ peers' = peers \cup {arg[t]}
    /\ mutex' = MutexAfterInsert(t)
    /\ helloDebt' = IF arg[t] \notin peers
                    THEN [helloDebt EXCEPT ![arg[t]] = @ + 1] ELSE helloDebt
    /\ Goto(t, IF isNewPeer'[t] THEN "add_hello" ELSE "add_ret")
    /\ Quiet
    /\ UNCHANGED <<iface, messageHandler, vpnBridge, envVars, farVars, arg, flags,
                   iter, retval, pre, removed, solo, prevAdd>>

\* if (isNewPeer) { ... m_pMessagesInterface->SendMessageToUser(identity,
\*     &helloMsg, sizeof(helloMsg), flags, VPN_CHANNEL); ...
\* The interface pointer is not checked before the call.
AddPeerHello(t) ==
    /\ At(t, "add_hello")
    /\ IF ~iface
       THEN Crash
       ELSE /\ \E ok \in BOOLEAN : TransportSend(arg[t], ok)
            /\ Emit(t, "send", arg[t], HelloMsg, HelloFlags)
            /\ helloDebt' = [helloDebt EXCEPT ![arg[t]] = @ - 1]
            /\ Goto(t, "add_notify")
            /\ UNCHANGED <<mgrVars, farVars, steamMessages, crashed, arg, flags, isNewPeer,
                           iter, retval, pre, removed, solo, prevAdd>>

\*     if (vpnBridge_) vpnBridge_->onUserJoined(peerID); }
AddPeerNotify(t) ==
    /\ At(t, "add_notify")
    /\ IF vpnBridge
       THEN Emit(t, "joined", arg[t], <<>>, {})
       ELSE Skip(t, "nobridge", arg[t])
    /\ Note("joined", arg[t])
    /\ Goto(t, "add_ret")
    /\ UNCHANGED <<mgrVars, envVars, quietVars, arg, flags, isNewPeer, iter, retval, pre,
                   removed, helloDebt, solo, prevAdd>>

AddPeerReturn(t) ==
    /\ pc[t] = "add_ret"
    /\ Return(t, TRUE)
    /\ UNCHANGED <<mgrVars, envVars, farVars, removed, helloDebt>>

\* ---------------------------------------------------------- removePeer

\* void removePeer(CSteamID peerID): lock_guard lock(peersMutex_);
\* if (peers_.erase(peerID) > 0) {
RemovePeerCall(t, p) ==
    /\ Invoke(t, FALSE, p)
    /\ Goto(t, "rm_erase")
    /\ Quiet
    /\ UNCHANGED <<mgrVars, envVars, farVars, flags, isNewPeer, iter, retval, pre, helloDebt>>

\* removePeer with the lock_guard in a block of its own around the erase.
RemovePeerEraseScoped(t) ==
    /\ At(t, "rm_erase")
    /\ mutex = 0
    /\ pre' = [pre EXCEPT ![t] = peers]
    /\ peers' = peers \ {arg[t]}
    /\ IF arg[t] \in peers
       THEN Skip(t, "erase", arg[t]) /\ Goto(t, "rm_close")
       ELSE Quiet /\ Goto(t, "rm_ret")
    /\ UNCHANGED <<mutex, iface, messageHandler, vpnBridge, envVars, farVars, arg, flags,
                   isNewPeer, iter, retval, removed, helloDebt, solo, prevAdd>>

\* removePeer ignoring what erase returned: it goes on to the close and the
\* notification whether or not peerID was a member.
RemovePeerEraseClosing(t) ==
    /\ At(t, "rm_erase")
    /\ Lock(t)
    /\ peers' = peers \ {arg[t]}
    /\ Skip(t, "erase", arg[t])
    /\ Goto(t, "rm_close")
    /\ UNCHANGED <<iface, messageHandler, vpnBridge, envVars, farVars, arg, flags, isNewPeer,
                   iter, retval, removed, helloDebt, solo, prevAdd>>

RemovePeerErase(t) ==
    /\ At(t, "rm_erase")
    /\ Lock(t)
    /\ peers' = peers \ {arg[t]}
    /\ IF arg[t] \in peers
       THEN Skip(t, "erase", arg[t]) /\ Goto(t, "rm_close")
       ELSE Quiet /\ Goto(t, "rm_ret")
    /\ UNCHANGED <<iface, messageHandler, vpnBridge, envVars, farVars, arg, flags, isNewPeer,
                   iter, retval, removed, helloDebt, solo, prevAdd>>

\*     if (m_pMessagesInterface) m_pMessagesInterface->CloseSessionWithUser(identity);
RemovePeerClose(t) ==
    /\ At(t, "rm_close")
    /\ IF iface
       THEN Emit(t, "close", arg[t], <<>>, {}) /\ TransportClose(arg[t])
       ELSE Skip(t, "noiface", arg[t]) /\ UNCHANGED sessions
    /\ Goto(t, "rm_notify")
    /\ UNCHANGED <<mgrVars, farVars, steamMessages, crashed, arg, flags, isNewPeer, iter,
                   retval, pre, removed, helloDebt, solo, prevAdd>>

\*     if (vpnBridge_) vpnBridge_->onUserLeft(peerID); }
RemovePeerNotify(t) ==
    /\ At(t, "rm_notify")
    /\ IF vpnBridge
       THEN Emit(t, "left", arg[t], <<>>, {})
       ELSE Skip(t, "nobridge", arg[t])
    /\ Note("left", arg[t])
    /\ Goto(t, "rm_ret")
    /\ UNCHANGED <<mgrVars, envVars, quietVars, arg, flags, isNewPeer, iter, retval, pre,
                   removed, helloDebt, solo, prevAdd>>

\* } : the lock_guard releases the mutex as the function returns.
RemovePeerReturn(t) ==
    /\ pc[t] = "rm_ret"
    /\ Return(t, FALSE)
    /\ Unlock(t)
    /\ removed' = removed \cup {arg[t]}
    /\ UNCHANGED <<peers, iface, messageHandler, vpnBridge, envVars, farVars, helloDebt>>


\* ---------------------------------------------------------- clearPeers

\* void clearPeers(): lock_guard lock(peersMutex_); for (peerID : peers_) {
ClearPeersCall(t) ==
    /\ Invoke(t, FALSE, Self)
    /\ Goto(t, "clr_lock")
    /\ Quiet
    /\ UNCHANGED <<mgrVars, envVars, farVars, flags, isNewPeer, iter, retval, pre, helloDebt>>

ClearPeersLock(t) ==
    /\ At(t, "clr_lock")
    /\ Lock(t)
    /\ iter' = [iter EXCEPT ![t] = peers]
    /\ Goto(t, "clr_close")
    /\ Quiet
    /\ UNCHANGED <<peers, iface, messageHandler, vpnBridge, envVars, farVars, arg, flags,
                   isNewPeer, retval, removed, helloDebt, solo, prevAdd>>

\*     if (m_pMessagesInterface) m_pMessagesInterface->CloseSessionWithUser(identity);
ClearPeersClose(t) ==
    /\ At(t, "clr_close")
    /\ iter[t] # {}
    /\ IF iface
       THEN Emit(t, "close", Min(iter[t]), <<>>, {}) /\ TransportClose(Min(iter[t]))
       ELSE Skip(t, "noiface", Min(iter[t])) /\ UNCHANGED sessions
    /\ Goto(t, "clr_notify")
    /\ UNCHANGED <<mgrVars, farVars, steamMessages, crashed, arg, flags, isNewPeer, iter,
                   retval, pre, removed, helloDebt, solo, prevAdd>>

\* clearPeers erasing each peer as it goes instead of clearing at the end.
ClearPeersNotifyErasing(t) ==
    /\ At(t, "clr_notify")
    /\ IF vpnBridge
       THEN Emit(t, "left", Min(iter[t]), <<>>, {})
       ELSE Skip(t, "nobridge", Min(iter[t]))
    /\ iter' = [iter EXCEPT ![t] = @ \ {Min(iter[t])}]
    /\ peers' = peers \ {Min(iter[t])}
    /\ Note("left", Min(iter[t]))
    /\ Goto(t, "clr_close")
    /\ UNCHANGED <<mutex, iface, messageHandler, vpnBridge, envVars, quietVars, arg, flags,
                   isNewPeer, retval, pre, removed, helloDebt, solo, prevAdd>>

\*     if (vpnBridge_) vpnBridge_->onUserLeft(peerID); }
ClearPeersNotify(t) ==
    /\ At(t, "clr_notify")
    /\ IF vpnBridge
       THEN Emit(t, "left", Min(iter[t]), <<>>, {})
       ELSE Skip(t, "nobridge", Min(iter[t]))
    /\ iter' = [iter EXCEPT ![t] = @ \ {Min(iter[t])}]
    /\ Note("left", Min(iter[t]))
    /\ Goto(t, "clr_close")
    /\ UNCHANGED <<mgrVars, envVars, quietVars, arg, flags, isNewPeer, retval, pre, removed,
                   helloDebt, solo, prevAdd>>

\* peers_.clear();
ClearPeersClear(t) ==
    /\ At(t, "clr_close")
    /\ iter[t] = {}
    /\ peers' = {}
    /\ Goto(t, "clr_ret")
    /\ Quiet
    /\ UNCHANGED <<mutex, iface, messageHandler, vpnBridge, envVars, farVars, arg, flags,
                   isNewPeer, iter, retval, pre, removed, helloDebt, solo, prevAdd>>

ClearPeersReturn(t) ==
    /\ pc[t] = "clr_ret"
    /\ Return(t, FALSE)
    /\ Unlock(t)
    /\ UNCHANGED <<peers, iface, messageHandler, vpnBridge, envVars, farVars, removed,
                   helloDebt>>

\* ------------------------------------------------------------ shutdown

\* void shutdown(): { lock_guard lock(peersMutex_); for (peerID : peers_) {
ShutdownCall(t) ==
    /\ Invoke(t, FALSE, Self)
    /\ Goto(t, "sd_lock")
    /\ Quiet
    /\ UNCHANGED <<mgrVars, envVars, farVars, flags, isNewPeer, iter, retval, pre, helloDebt>>

ShutdownLock(t) ==
    /\ At(t, "sd_lock")
    /\ Lock(t)
    /\ iter' = [iter EXCEPT ![t] = peers]
    /\ Goto(t, "sd_close")
    /\ Quiet
    /\ UNCHANGED <<peers, iface, messageHandler, vpnBridge, envVars, farVars, arg, flags,
                   isNewPeer, retval, removed, helloDebt, solo, prevAdd>>

\* shutdown walking the set without closing the sessions.
ShutdownCloseSkipped(t) ==
    /\ At(t, "sd_close")
    /\ iter[t] # {}
    /\ Quiet
    /\ iter' = [iter EXCEPT ![t] = @ \ {Min(iter[t])}]
    /\ UNCHANGED <<mgrVars, envVars, farVars, pc, arg, flags, isNewPeer,
                   retval, pre, removed, helloDebt, solo, prevAdd>>

\*     if (m_pMessagesInterface) m_pMessagesInterface->CloseSessionWithUser(identity); }
ShutdownClose(t) ==
    /\ At(t, "sd_close")
    /\ iter[t] # {}
    /\ IF iface
       THEN Emit(t, "close", Min(iter[t]), <<>>, {}) /\ TransportClose(Min(iter[t]))
       ELSE Skip(t, "noiface", Min(iter[t])) /\ UNCHANGED sessions
    /\ iter' = [iter EXCEPT ![t] = @ \ {Min(iter[t])}]
    /\ UNCHANGED <<mgrVars, farVars, steamMessages, crashed, pc, arg, flags, isNewPeer,
                   retval, pre, removed, helloDebt, solo, prevAdd>>

\* peers_.clear(); }   (the block ends: the mutex is released)
ShutdownClear(t) ==
    /\ At(t, "sd_close")
    /\ iter[t] = {}
    /\ peers' = {}
    /\ Unlock(t)
    /\ Goto(t, "sd_ret")
    /\ Quiet
    /\ UNCHANGED <<iface, messageHandler, vpnBridge, envVars, farVars, arg, flags,
                   isNewPeer, iter, retval, pre, removed, helloDebt, solo, prevAdd>>

\* SteamAPI_Shutdown();
ShutdownReturn(t) ==
    /\ pc[t] = "sd_ret"
    /\ Return(t, FALSE)
    /\ UNCHANGED <<mgrVars, envVars, farVars, removed, helloDebt>>

\* ------------------------------------------- sendMessageToUser, broadcast

\* bool sendMessageToUser(peerID, data, size, flags):
\* if (!m_pMessagesInterface) return false;
SendMessageToUserCall(t, p, f) ==
    /\ Invoke(t, FALSE, p)
    /\ flags' = [flags EXCEPT ![t] = f]
    /\ IF ~iface
       THEN /\ retval' = [retval EXCEPT ![t] = [op |-> "sendMessageToUser", val |-> FALSE]]
            /\ Goto(t, "sm_ret")
       ELSE /\ UNCHANGED retval
            /\ Goto(t, "sm_send")
    /\ Quiet
    /\ UNCHANGED <<mgrVars, envVars, farVars, isNewPeer, iter, pre, helloDebt>>

\* EResult result = m_pMessagesInterface->SendMessageToUser(identity, data, size,
\*     flags, VPN_CHANNEL); return result == k_EResultOK;
SendMessageToUserSend(t) ==
    /\ At(t, "sm_send")
    /\ \E ok \in BOOLEAN :
         /\ TransportSend(arg[t], ok)
         /\ retval' = [retval EXCEPT ![t] = [op |-> "sendMessageToUser", val |-> ok]]
    /\ Emit(t, "send", arg[t], UserMsg, flags[t])
    /\ Goto(t, "sm_ret")
    /\ UNCHANGED <<mgrVars, farVars, steamMessages, crashed, arg, flags, isNewPeer, iter,
                   pre, removed, helloDebt, solo, prevAdd>>

SendMessageToUserReturn(t) ==
    /\ pc[t] = "sm_ret"
    /\ Return(t, FALSE)
    /\ UNCHANGED <<mgrVars, envVars, farVars, removed, helloDebt>>

\* void broadcastMessage(data, size, flags): if (!m_pMessagesInterface) return;
BroadcastMessageCall(t, f) ==
    /\ Invoke(t, FALSE, Self)
    /\ flags' = [flags EXCEPT ![t] = f]
    /\ Goto(t, IF ~iface THEN "bc_ret" ELSE "bc_lock")
    /\ Quiet
    /\ UNCHANGED <<mgrVars, envVars, farVars, isNewPeer, iter, retval, pre, helloDebt>>

\* lock_guard lock(peersMutex_); for (peerID : peers_) {
BroadcastMessageLock(t) ==
    /\ At(t, "bc_lock")
    /\ Lock(t)
    /\ iter' = [iter EXCEPT ![t] = peers]
    /\ Goto(t, "bc_send")
    /\ Quiet
    /\ UNCHANGED <<peers, iface, messageHandler, vpnBridge, envVars, farVars, arg, flags,
                   isNewPeer, retval, removed, helloDebt, solo, prevAdd>>

\* broadcastMessage sending with flags of its own instead of the caller's.
BroadcastMessageSendUnflagged(t) ==
    /\ At(t, "bc_send")
    /\ iter[t] # {}
    /\ \E ok \in BOOLEAN : TransportSend(Min(iter[t]), ok)
    /\ Emit(t, "send", Min(iter[t]), UserMsg, {})
    /\ iter' = [iter EXCEPT ![t] = @ \ {Min(iter[t])}]
    /\ UNCHANGED <<mgrVars, farVars, steamMessages, crashed, pc, arg, flags, isNewPeer,
                   retval, pre, removed, helloDebt, solo, prevAdd>>

\*     m_pMessagesInterface->SendMessageToUser(identity, data, size, flags, VPN_CHANNEL); }
BroadcastMessageSend(t) ==
    /\ At(t, "bc_send")
    /\ iter[t] # {}
    /\ \E ok \in BOOLEAN : TransportSend(Min(iter[t]), ok)
    /\ Emit(t, "send", Min(iter[t]), UserMsg, flags[t])
    /\ iter' = [iter EXCEPT ![t] = @ \ {Min(iter[t])}]
    /\ UNCHANGED <<mgrVars, farVars, steamMessages, crashed, pc, arg, flags, isNewPeer,
                   retval, pre, removed, helloDebt, solo, prevAdd>>

BroadcastMessageDone(t) ==
    /\ At(t, "bc_send")
    /\ iter[t] = {}
    /\ Goto(t, "bc_ret")
    /\ Quiet
    /\ UNCHANGED <<mgrVars, envVars, farVars, arg, flags, isNewPeer, iter, retval, pre,
                   removed, helloDebt, solo, prevAdd>>

\* The lock_guard (taken only on the path past the interface check) is released.
BroadcastMessageReturn(t) ==
    /\ pc[t] = "bc_ret"
    /\ Return(t, FALSE)
    /\ mutex' = IF mutex = t THEN 0 ELSE mutex
    /\ UNCHANGED <<peers, iface, messageHandler, vpnBridge, envVars, farVars, removed,
                   helloDebt>>


\* ------------------------------------------------ getPeers, isConnected

\* std::set<CSteamID> getPeers() const
GetPeersCall(t) ==
    /\ Invoke(t, FALSE, Self)
    /\ Goto(t, "gp_copy")
    /\ Quiet
    /\ UNCHANGED <<mgrVars, envVars, farVars, flags, isNewPeer, iter, retval, pre, helloDebt>>

\* { lock_guard lock(peersMutex_); return peers_; }
GetPeersCopy(t) ==
    /\ At(t, "gp_copy")
    /\ mutex = 0
    /\ retval' = [retval EXCEPT ![t] = [op |-> "getPeers", val |-> peers]]
    /\ Goto(t, "gp_ret")
    /\ Quiet
    /\ UNCHANGED <<mgrVars, envVars, farVars, arg, flags, isNewPeer, iter, pre, removed,
                   helloDebt, solo, prevAdd>>

GetPeersReturn(t) ==
    /\ pc[t] = "gp_ret"
    /\ Return(t, FALSE)
    /\ UNCHANGED <<mgrVars, envVars, farVars, removed, helloDebt>>

\* bool isConnected() const { return !peers_.empty(); }   (no lock is taken:
\* the read sees the set as it is before or after a concurrent insert, erase
\* or clear)
IsConnectedCall(t) ==
    /\ Invoke(t, FALSE, Self)
    /\ retval' = [retval EXCEPT ![t] = [op |-> "isConnected", val |-> peers # {}]]
    /\ Goto(t, "ic_ret")
    /\ Quiet
    /\ UNCHANGED <<mgrVars, envVars, farVars, flags, isNewPeer, iter, pre, helloDebt>>

IsConnectedReturn(t) ==
    /\ pc[t] = "ic_ret"
    /\ Return(t, FALSE)
    /\ UNCHANGED <<mgrVars, envVars, farVars, removed, helloDebt>>

\* ------------------------------------------------------ Steam callbacks

\* void OnSessionRequest(SteamNetworkingMessagesSessionRequest_t *pCallback)
OnSessionRequestCall(t, p) ==
    /\ Invoke(t, FALSE, p)
    /\ Goto(t, "osr_find")
    /\ Quiet
    /\ UNCHANGED <<mgrVars, envVars, farVars, flags, isNewPeer, iter, retval, pre, helloDebt>>

\* OnSessionRequest accepting without the membership test.
OnSessionRequestAcceptAny(t) ==
    /\ At(t, "osr_find")
    /\ mutex = 0
    /\ IF ~iface
       THEN Crash
       ELSE /\ Lock(t)
            /\ Emit(t, "accept", arg[t], <<>>, {}) /\ TransportAccept(arg[t])
            /\ Goto(t, "osr_ret")
            /\ UNCHANGED <<peers, iface, messageHandler, vpnBridge, farVars, steamMessages,
                           crashed, arg, flags, isNewPeer, iter, retval, removed,
                           helloDebt, solo, prevAdd>>

\* { lock_guard lock(peersMutex_); if (peers_.find(remoteSteamID) != peers_.end())
\*     m_pMessagesInterface->AcceptSessionWithUser(pCallback->m_identityRemote);
OnSessionRequestAccept(t) ==
    /\ At(t, "osr_find")
    /\ mutex = 0
    /\ IF arg[t] \in peers /\ ~iface
       THEN Crash
       ELSE /\ Lock(t)
            /\ IF arg[t] \in peers
               THEN Emit(t, "accept", arg[t], <<>>, {}) /\ TransportAccept(arg[t])
               ELSE Quiet /\ UNCHANGED sessions
            /\ Goto(t, "osr_ret")
            /\ UNCHANGED <<peers, iface, messageHandler, vpnBridge, farVars, steamMessages,
                           crashed, arg, flags, isNewPeer, iter, retval, removed,
                           helloDebt, solo, prevAdd>>

\* }
OnSessionRequestReturn(t) ==
    /\ pc[t] = "osr_ret"
    /\ Return(t, FALSE)
    /\ Unlock(t)
    /\ UNCHANGED <<peers, iface, messageHandler, vpnBridge, envVars, farVars, removed,
                   helloDebt>>

\* void OnSessionFailed(SteamNetworkingMessagesSessionFailed_t *pCallback)
OnSessionFailedCall(t, p) ==
    /\ Invoke(t, FALSE, p)
    /\ Goto(t, "osf_log")
    /\ Quiet
    /\ UNCHANGED <<mgrVars, envVars, farVars, flags, isNewPeer, iter, retval, pre, helloDebt>>

\* OnSessionFailed dropping the failed peer from the registry.
OnSessionFailedRemoves(t) ==
    /\ At(t, "osf_log")
    /\ mutex = 0
    /\ peers' = peers \ {arg[t]}
    /\ Goto(t, "osf_ret")
    /\ Quiet
    /\ UNCHANGED <<mutex, iface, messageHandler, vpnBridge, envVars, farVars, arg, flags,
                   isNewPeer, iter, retval, pre, removed, helloDebt, solo, prevAdd>>

\* std::cout << "Session failed with " << ... << m_szEndDebug << std::endl;
OnSessionFailed(t) ==
    /\ At(t, "osf_log")
    /\ Goto(t, "osf_ret")
    /\ Quiet
    /\ UNCHANGED <<mgrVars, envVars, farVars, arg, flags, isNewPeer, iter, retval, pre,
                   removed, helloDebt, solo, prevAdd>>

OnSessionFailedReturn(t) ==
    /\ pc[t] = "osf_ret"
    /\ Return(t, FALSE)
    /\ UNCHANGED <<mgrVars, envVars, farVars, removed, helloDebt>>

\* ------------------------------------------- initialize, setVpnBridge

\* bool initialize(): returns false when Steam is not running; otherwise
\* m_pMessagesInterface = SteamNetworkingMessages(); returns false when that
\* is null; otherwise messageHandler_ = new SteamMessageHandler(...).
initialize(t, steamRunning) ==
    /\ ~crashed
    /\ ~dying
    /\ pc[t] = "idle"
    /\ IF ~steamRunning
       THEN UNCHANGED <<iface, messageHandler, farVars>>
       ELSE /\ iface' = steamMessages
            /\ messageHandler' = (steamMessages \/ messageHandler)
            /\ IF steamMessages
               THEN /\ running' = FALSE
                    /\ currentPollInterval' = MIN_POLL_INTERVAL
                    /\ externalContext' = FALSE
                    /\ ioThread' = FALSE
                    /\ pollTimer' = "none"
                    /\ wk' = "idle"
                    /\ got' = 0
                    /\ idleRun' = 0
                    /\ stopped' = FALSE
                    /\ UNCHANGED <<inbox, dying, sessionInfo, tunVars, bridgeVars, watch, lastNote>>
               ELSE UNCHANGED farVars
    /\ solo' = [u \in Threads |-> "no"]
    /\ prevAdd' = NoPeer
    /\ Quiet
    /\ UNCHANGED <<peers, mutex, vpnBridge, envVars, thrVars, pre, removed, helloDebt>>

\* void setVpnBridge(SteamVpnBridge* vpnBridge) { vpnBridge_ = vpnBridge; }
setVpnBridge(t, b) ==
    /\ ~crashed
    /\ ~dying
    /\ pc[t] = "idle"
    /\ vpnBridge' = b
    /\ solo' = [u \in Threads |-> "no"]
    /\ prevAdd' = NoPeer
    /\ Quiet
    /\ UNCHANGED <<peers, mutex, iface, messageHandler, envVars, farVars, thrVars, pre,
                   removed, helloDebt>>

\* ------------------------------------------------- SteamMessageHandler
\* steam_message_handler.cpp is not among the sources: the engine's steps are
\* those of the specification's PollEngine (4.4), on the fields and constants
\* steam_message_handler.h declares.

Least(a, b) == IF a <= b THEN a ELSE b

NextIntervalUnclamped(i, n) ==
    IF n > 0 THEN MIN_POLL_INTERVAL ELSE i + POLL_INCREMENT

NextIntervalSticky(i, n) ==
    IF n > 0 THEN i ELSE Least(i + POLL_INCREMENT, MAX_POLL_INTERVAL)

\* The interval after a tick that drained n messages at interval i.
NextInterval(i, n) ==
    IF n > 0 THEN MIN_POLL_INTERVAL
             ELSE Least(i + POLL_INCREMENT, MAX_POLL_INTERVAL)

\* A step of the engine or of the transport: no caller of the manager moves.
Background ==
    /\ ~crashed
    /\ Quiet
    /\ UNCHANGED <<mgrVars, envVars, thrVars, pre, removed, helloDebt, solo,
                   prevAdd, dying, sessionInfo, tunVars, bridgeVars, watch, lastNote>>

\* A caller's step on the engine: the registry is left alone.
OnEngine ==
    /\ Quiet
    /\ UNCHANGED <<mgrVars, envVars, arg, flags, isNewPeer, iter, retval, pre,
                   removed, helloDebt, solo, prevAdd>>

\* The transport receives a message for the VPN channel.
Arrive ==
    /\ iface
    /\ inbox < MaxInbox
    /\ inbox' = inbox + 1
    /\ Background
    /\ UNCHANGED <<running, currentPollInterval, externalContext, ioThread,
                   pollTimer, wk, got, idleRun, stopped>>

\* pollTimer_ expires on the executor: the tick starts unless the engine was
\* told to stop.  (An empty tick past MaxIdleRun is not told apart and waits.)
TimerFire ==
    /\ pollTimer = "armed"
    /\ wk = "idle"
    /\ running => (idleRun < MaxIdleRun \/ inbox > 0)
    /\ pollTimer' = "none"
    /\ IF running
       THEN wk' = "drain" /\ got' = 0
       ELSE UNCHANGED <<wk, got>>
    /\ Background
    /\ UNCHANGED <<running, currentPollInterval, externalContext, ioThread,
                   inbox, idleRun, stopped>>

\* pollMessages: one message of the batch is received and handed on.
DrainOne ==
    /\ wk = "drain"
    /\ inbox > 0
    /\ got < MaxBatch
    /\ inbox' = inbox - 1
    /\ got' = got + 1
    /\ Background
    /\ UNCHANGED <<running, currentPollInterval, externalContext, ioThread,
                   pollTimer, wk, idleRun, stopped>>

\* pollMessages: nothing more to receive, or the batch is full; the interval is
\* adapted to what the tick drained.
DrainEnd ==
    /\ wk = "drain"
    /\ inbox = 0 \/ got = MaxBatch
    /\ currentPollInterval' = NextInterval(currentPollInterval, got)
    /\ idleRun' = IF got > 0 THEN 0 ELSE idleRun + 1
    /\ wk' = "sched"
    /\ Background
    /\ UNCHANGED <<running, externalContext, ioThread, pollTimer, inbox, got,
                   stopped>>

\* schedulePoll: the next tick is armed while the engine is running.
SchedulePoll ==
    /\ wk = "sched"
    /\ pollTimer' = IF running THEN "armed" ELSE pollTimer
    /\ wk' = "idle"
    /\ Background
    /\ UNCHANGED <<running, currentPollInterval, externalContext, ioThread,
                   inbox, got, idleRun, stopped>>

\* void SteamMessageHandler::setIoContext(asio::io_context* externalContext),
\* reached through getMessageHandler(), before the engine is started.
setIoContext(t, ext) ==
    /\ ~crashed
    /\ ~dying
    /\ pc[t] = "idle"
    /\ messageHandler
    /\ ~running
    /\ wk = "idle"
    /\ externalContext' = ext
    /\ Quiet
    /\ UNCHANGED <<mgrVars, envVars, thrVars, pre, removed, helloDebt, solo,
                   prevAdd, dying, sessionInfo, tunVars, bridgeVars, watch, lastNote>>
    /\ UNCHANGED <<running, currentPollInterval, ioThread, pollTimer, wk, inbox,
                   got, idleRun, stopped>>

\* void startMessageHandler(): if (messageHandler_) messageHandler_->start();
\* start() runs the engine on its own thread unless an executor was supplied,
\* and schedules the first tick.
startMessageHandler(t) ==
    /\ ~crashed
    /\ ~dying
    /\ pc[t] = "idle"
    /\ IF messageHandler /\ ~running
       THEN /\ running' = TRUE
            /\ ioThread' = ~externalContext
            /\ pollTimer' = "armed"
            /\ stopped' = FALSE
            /\ UNCHANGED <<currentPollInterval, externalContext, wk, inbox, got,
                           idleRun>>
       ELSE UNCHANGED pollVars
    /\ Quiet
    /\ UNCHANGED <<mgrVars, envVars, thrVars, pre, removed, helloDebt, solo,
                   prevAdd, dying, sessionInfo, tunVars, bridgeVars, watch, lastNote>>

\* void stopMessageHandler(): if (messageHandler_) messageHandler_->stop();
StopMessageHandlerCall(t) ==
    /\ Invoke(t, FALSE, Self)
    /\ Goto(t, IF messageHandler THEN "stop_flag" ELSE "stop_ret")
    /\ Quiet
    /\ UNCHANGED <<mgrVars, envVars, flags, isNewPeer, iter, retval, pre,
                   helloDebt, farVars>>

\* stop(): running_ = false;
StopFlag(t) ==
    /\ At(t, "stop_flag")
    /\ running' = FALSE
    /\ Goto(t, "stop_cancel")
    /\ OnEngine
    /\ UNCHANGED <<currentPollInterval, externalContext, ioThread, pollTimer, wk,
                   inbox, got, idleRun, stopped, dying, sessionInfo, tunVars, bridgeVars, watch, lastNote>>

\* stop(): the pending timer is cancelled.
StopCancel(t) ==
    /\ At(t, "stop_cancel")
    /\ pollTimer' = "none"
    /\ Goto(t, "stop_join")
    /\ OnEngine
    /\ UNCHANGED <<running, currentPollInterval, externalContext, ioThread, wk,
                   inbox, got, idleRun, stopped, dying, sessionInfo, tunVars, bridgeVars, watch, lastNote>>

\* stop(): the engine's own thread, when there is one, is joined: it ends once
\* its executor has no tick in progress and no timer pending.
StopJoin(t) ==
    /\ At(t, "stop_join")
    /\ IF ioThread
       THEN wk = "idle" /\ pollTimer = "none" /\ ioThread' = FALSE
       ELSE UNCHANGED ioThread
    /\ Goto(t, "stop_ret")
    /\ OnEngine
    /\ UNCHANGED <<running, currentPollInterval, externalContext, pollTimer, wk,
                   inbox, got, idleRun, stopped, dying, sessionInfo, tunVars, bridgeVars, watch, lastNote>>

\* stop() returns: to stopMessageHandler's caller, or into the destructor.
StopReturn(t) ==
    /\ pc[t] = "stop_ret"
    /\ stopped' = messageHandler
    /\ IF dying
       THEN /\ ~crashed
            /\ Goto(t, "dt_delete")
            /\ OnEngine
       ELSE /\ Return(t, FALSE)
            /\ UNCHANGED <<mgrVars, envVars, removed, helloDebt>>
    /\ UNCHANGED <<running, currentPollInterval, externalContext, ioThread,
                   pollTimer, wk, inbox, got, idleRun, dying, sessionInfo, tunVars, bridgeVars, watch, lastNote>>

\* -------------------------------------------- ~SteamNetworkingManager

DtorCallShutdownFirst(t) ==
    /\ ~crashed
    /\ ~dying
    /\ pc[t] = "idle"
    /\ OthersIdle(t)
    /\ dying' = TRUE
    /\ Goto(t, "sd_lock")
    /\ OnEngine
    /\ UNCHANGED <<pollVars, sessionInfo, tunVars, bridgeVars, watch, lastNote>>

\* ~SteamNetworkingManager() { stopMessageHandler(); ...
\* The object is destroyed once: no call is running and none follows.
DtorCall(t) ==
    /\ ~crashed
    /\ ~dying
    /\ pc[t] = "idle"
    /\ OthersIdle(t)
    /\ dying' = TRUE
    /\ Goto(t, IF messageHandler THEN "stop_flag" ELSE "dt_delete")
    /\ OnEngine
    /\ UNCHANGED <<pollVars, sessionInfo, tunVars, bridgeVars, watch, lastNote>>

\* ... delete messageHandler_; shutdown(); }
DtorDelete(t) ==
    /\ At(t, "dt_delete")
    /\ Goto(t, "sd_lock")
    /\ OnEngine
    /\ UNCHANGED <<pollVars, dying, sessionInfo, tunVars, bridgeVars, watch, lastNote>>

\* ------------------ getPeerPing, isPeerConnected, getPeerConnectionType

\* if (!m_pMessagesInterface) return -1; state = GetSessionConnectionInfo(
\* identity, nullptr, &status); if (state == Connected) return status.m_nPing;
\* return -1;
getPeerPing(ifc, info) ==
    IF ~ifc THEN -1
    ELSE IF info.state = "Connected" THEN info.ping ELSE -1

\* if (!m_pMessagesInterface) return false; return state == Connected;
isPeerConnected(ifc, info) ==
    IF ~ifc THEN FALSE ELSE info.state = "Connected"

getPeerConnectionTypeExact(ifc, info) ==
    IF ~ifc THEN "N/A"
    ELSE IF info.state = "Connected"
         THEN IF info.flags = {"Relayed"} THEN "relayed" ELSE "direct"
         ELSE "N/A"

\* if (!m_pMessagesInterface) return "N/A"; if (state == Connected) { if
\* (info.m_nFlags & k_nSteamNetworkConnectionInfoFlags_Relayed) return <relayed>;
\* else return <direct>; } return "N/A";   (the two labels are in Chinese)
getPeerConnectionType(ifc, info) ==
    IF ~ifc THEN "N/A"
    ELSE IF info.state = "Connected"
         THEN IF "Relayed" \in info.flags THEN "relayed" ELSE "direct"
         ELSE "N/A"

\* int getPeerPing(CSteamID peerID) const
GetPeerPingCall(t, p) ==
    /\ Invoke(t, FALSE, p)
    /\ retval' = [retval EXCEPT ![t] =
                     [op |-> "getPeerPing",
                      val |-> getPeerPing(iface, sessionInfo[p])]]
    /\ Goto(t, "st_ret")
    /\ Quiet
    /\ UNCHANGED <<mgrVars, envVars, farVars, flags, isNewPeer, iter, pre, helloDebt>>

\* bool isPeerConnected(CSteamID peerID) const
IsPeerConnectedCall(t, p) ==
    /\ Invoke(t, FALSE, p)
    /\ retval' = [retval EXCEPT ![t] =
                     [op |-> "isPeerConnected",
                      val |-> isPeerConnected(iface, sessionInfo[p])]]
    /\ Goto(t, "st_ret")
    /\ Quiet
    /\ UNCHANGED <<mgrVars, envVars, farVars, flags, isNewPeer, iter, pre, helloDebt>>

\* std::string getPeerConnectionType(CSteamID peerID) const
GetPeerConnectionTypeCall(t, p) ==
    /\ Invoke(t, FALSE, p)
    /\ retval' = [retval EXCEPT ![t] =
                     [op |-> "getPeerConnectionType",
                      val |-> getPeerConnectionType(iface, sessionInfo[p])]]
    /\ Goto(t, "st_ret")
    /\ Quiet
    /\ UNCHANGED <<mgrVars, envVars, farVars, flags, isNewPeer, iter, pre, helloDebt>>

StatsReturn(t) ==
    /\ pc[t] = "st_ret"
    /\ Return(t, FALSE)
    /\ UNCHANGED <<mgrVars, envVars, farVars, removed, helloDebt>>

\* The transport's session with p changes state, ping or route.
SessionChange(p, info) ==
    /\ ~crashed
    /\ steamMessages
    /\ sessionInfo' = [sessionInfo EXCEPT ![p] = info]
    /\ Quiet
    /\ UNCHANGED <<mgrVars, envVars, thrVars, pre, removed, helloDebt, solo,
                   prevAdd, pollVars, dying, tunVars, bridgeVars, watch, lastNote>>

\* ------------------------------------------------------- TunInterface
\* One device object, used by one caller at a time: each member function is a
\* step, with what the kernel answers chosen by the environment.

\* <linux/if.h>: IFNAMSIZ, as open() uses it.
IFNAMSIZ == 16

\* The device names callers pass to open(), as their characters.
DeviceNames ==
    { <<>>,
      <<"u", "t", "u", "n", "5">>,
      <<"u", "t", "u", "n">>,
      <<"t", "u", "n", "0">>,
      <<"s", "t", "e", "a", "m", "v", "p", "n", "-", "o", "v", "e", "r", "l",
        "a", "y", "0">> }

\* "steamvpn%d"
DefaultLinuxName == <<"s", "t", "e", "a", "m", "v", "p", "n", "%", "d">>

Mtus == {1500, 1400}

Digits == <<"0", "1", "2", "3", "4", "5", "6", "7", "8", "9">>

IsDigit(c) == \E i \in 1..10 : Digits[i] = c

DigitValue(c) == (CHOOSE i \in 1..10 : Digits[i] = c) - 1

RECURSIVE LeadingDigits(_)
LeadingDigits(cs) ==
    IF cs = <<>> \/ ~IsDigit(Head(cs)) THEN <<>>
    ELSE <<Head(cs)>> \o LeadingDigits(Tail(cs))

RECURSIVE DigitsValue(_, _)
DigitsValue(cs, acc) ==
    IF cs = <<>> THEN acc
    ELSE DigitsValue(Tail(cs), acc * 10 + DigitValue(Head(cs)))

RECURSIVE Itoa(_)
\* operator<<(int) for a number that is not negative.
Itoa(n) == IF n < 10 THEN <<Digits[n + 1]>>
           ELSE Itoa(n \div 10) \o <<Digits[(n % 10) + 1]>>

\* name.substr(0, n)
Substr(cs, n) == SubSeq(cs, 1, Least(n, Len(cs)))

\* try { requestedUnit = std::stoi(deviceName.substr(4)); } catch (...) {}
\* for a name that starts with "utun"; -1 (let the system choose) otherwise.
RequestedUnit(name) ==
    IF name # <<>> /\ Substr(name, 4) = <<"u", "t", "u", "n">>
          /\ LeadingDigits(SubSeq(name, 5, Len(name))) # <<>>
    THEN DigitsValue(LeadingDigits(SubSeq(name, 5, Len(name))), 0)
    ELSE -1

\* The name the kernel gives the interface for TUNSETIFF's ifr_name: a
\* trailing %d becomes the first free number.
KernelName(name) ==
    IF Len(name) >= 2 /\ SubSeq(name, Len(name) - 1, Len(name)) = <<"%", "d">>
    THEN SubSeq(name, 1, Len(name) - 2) \o <<"0">>
    ELSE name

\* The descriptor the kernel hands out next: the lowest one not in use.
NewFd == CHOOSE n \in 3..(3 + Cardinality(kfds)) :
            n \notin kfds /\ \A m \in 3..(n - 1) : m \in kfds

\* A step of the device: the manager and its engine are left alone.
TunStep ==
    /\ platform # "none"
    /\ UNCHANGED <<mgrVars, envVars, thrVars, obsVars, pollVars, dying,
                   sessionInfo, bridgeVars, watch, lastNote, platform>>

\* std::unique_ptr<TunInterface> create_tun(): the constructor's values are
\* those of Init (fd_(-1), mtu_(1500), nonBlocking_(false), utunNumber_(-1)).
create_tun(pf) ==
    /\ platform = "none"
    /\ platform' = pf
    /\ UNCHANGED <<mgrVars, envVars, thrVars, obsVars, pollVars, dying,
                   sessionInfo, bridgeVars, watch, lastNote, fd, deviceName,
                   utunNumber, mtu,
                   lastError,
                   kfds, tunRet, rejected, nonBlocking>>

OpenResult(val, kernel) == [op |-> "open", val |-> val, kernel |-> kernel]

AlreadyOpen ==
    /\ lastError' = "TUN device already open"
    /\ tunRet' = OpenResult(FALSE, "none")
    /\ UNCHANGED <<fd, deviceName, utunNumber, mtu, kfds, rejected,
                   nonBlocking>>

\* The system call that gives the descriptor fails: fd_ takes its -1.
NoDescriptor(err) ==
    /\ fd' = -1
    /\ lastError' = err
    /\ tunRet' = OpenResult(FALSE, "rejected")
    /\ rejected' = TRUE
    /\ UNCHANGED <<deviceName, utunNumber, mtu, kfds, nonBlocking>>

\* A later call fails: ::close(fd_); fd_ = -1; return false;
CloseAndFail(err) ==
    /\ fd' = -1
    /\ kfds' = kfds
    /\ lastError' = err
    /\ tunRet' = OpenResult(FALSE, "rejected")
    /\ rejected' = TRUE
    /\ UNCHANGED <<deviceName, utunNumber, mtu, nonBlocking>>

\* TunLinux::open returning on a failed TUNSETIFF with the descriptor left open.
TunLinuxOpenLeaky(name, m) ==
    /\ TunStep
    /\ platform = "linux"
    /\ IF fd >= 0
       THEN AlreadyOpen
       ELSE \E openOk, ioctlOk \in BOOLEAN :
              IF ~openOk THEN NoDescriptor("Failed to open /dev/net/tun")
              ELSE IF ~ioctlOk
              THEN /\ fd' = -1
                   /\ kfds' = kfds \cup {NewFd}
                   /\ lastError' = "ioctl TUNSETIFF failed"
                   /\ tunRet' = OpenResult(FALSE, "rejected")
                   /\ rejected' = TRUE
                   /\ UNCHANGED <<deviceName, utunNumber, mtu, nonBlocking>>
              ELSE /\ fd' = NewFd
                   /\ kfds' = kfds \cup {NewFd}
                   /\ deviceName' =
                        KernelName(IF name = <<>> THEN DefaultLinuxName
                                   ELSE IF Len(name) >= IFNAMSIZ
                                        THEN Substr(name, IFNAMSIZ - 1)
                                        ELSE name)
                   /\ mtu' = m
                   /\ tunRet' = OpenResult(TRUE, "ok")
                   /\ nonBlocking' = FALSE
                   /\ UNCHANGED <<utunNumber, lastError, rejected>>

\* bool TunLinux::open(const std::string& deviceName, int mtu)
TunLinuxOpen(name, m) ==
    /\ TunStep
    /\ platform = "linux"
    /\ IF fd >= 0
       THEN AlreadyOpen
       ELSE \E openOk, ioctlOk \in BOOLEAN :
              IF ~openOk THEN NoDescriptor("Failed to open /dev/net/tun")
              ELSE IF ~ioctlOk THEN CloseAndFail("ioctl TUNSETIFF failed")
              ELSE /\ fd' = NewFd
                   /\ kfds' = kfds \cup {NewFd}
                   /\ deviceName' =
                        KernelName(IF name = <<>> THEN DefaultLinuxName
                                   ELSE IF Len(name) >= IFNAMSIZ
                                        THEN Substr(name, IFNAMSIZ - 1)
                                        ELSE name)
                   /\ mtu' = m
                   /\ tunRet' = OpenResult(TRUE, "ok")
                   /\ nonBlocking' = FALSE
                   /\ UNCHANGED <<utunNumber, lastError, rejected>>

\* for (int i = 0; i < 256; i++): the units the scan looks at.
UtunUnits == 256

\* The utun units that are taken when open() connects, so that connect is
\* refused for them: none, the first three, unit 5, all of them.
BusyUnits == { {}, {0, 1, 2}, {5}, 0..(UtunUnits - 1) }

\* The units the scan tries: i = 0, 1, ... with sc_unit = i + 1, up to the
\* first whose connect returns 0 (the break), or all of them when none does.
ScanUnits(busy) ==
    LET stop == IF \A i \in 0..(UtunUnits - 1) : i \in busy
                THEN UtunUnits - 1
                ELSE CHOOSE i \in 0..(UtunUnits - 1) :
                        i \notin busy /\ \A j \in 0..(i - 1) : j \in busy
    IN  [k \in 1..(stop + 1) |-> k - 1]

\* The units open() calls connect for, in the order of the calls.
ConnectsTried(requestedUnit, busy) ==
    IF requestedUnit >= 0 THEN <<requestedUnit>> ELSE ScanUnits(busy)

\* The name built from sc_unit, which is one more than the unit.
UtunNameOfScUnit(unit) == <<"u", "t", "u", "n">> \o Itoa(unit + 1)

\* oss << "utun" << utunNumber_
UtunName(unit) == <<"u", "t", "u", "n">> \o Itoa(unit)

\* What an open() that got as far as connect returns, with the name it was
\* given, the units that were taken and the units it tried.
ConnectResult(val, name, busy, tried) ==
    [op |-> "open", val |-> val, kernel |-> IF val THEN "ok" ELSE "rejected",
     name |-> name, busy |-> busy, tried |-> tried]

\* bool TunMacOS::open(const std::string& deviceName, int mtu)
TunMacOSOpen(name, m) ==
    /\ TunStep
    /\ platform = "macos"
    /\ IF fd >= 0
       THEN AlreadyOpen
       ELSE \E socketOk, ioctlOk \in BOOLEAN, busy \in BusyUnits :
              LET tried == ConnectsTried(RequestedUnit(name), busy)
                  unit == tried[Len(tried)]
              IN  IF ~socketOk
                  THEN NoDescriptor("Failed to create PF_SYSTEM socket")
                  ELSE IF ~ioctlOk
                  THEN CloseAndFail("ioctl CTLIOCGINFO failed")
                  ELSE IF unit \in busy
                  THEN /\ fd' = -1
                       /\ kfds' = kfds
                       /\ lastError' = "Failed to connect to utun control"
                       /\ tunRet' = ConnectResult(FALSE, name, busy, tried)
                       /\ rejected' = TRUE
                       /\ UNCHANGED <<deviceName, utunNumber, mtu,
                                      nonBlocking>>
                  ELSE /\ fd' = NewFd
                       /\ kfds' = kfds \cup {NewFd}
                       /\ utunNumber' = unit
                       /\ deviceName' = UtunName(utunNumber')
                       /\ mtu' = m
                       /\ tunRet' = ConnectResult(TRUE, name, busy, tried)
                       /\ nonBlocking' = FALSE
                       /\ UNCHANGED <<lastError, rejected>>

\* void close(): if (fd_ >= 0) { ::close(fd_); fd_ = -1; } deviceName_.clear();
\* (and, on macOS, utunNumber_ = -1).
TunClose ==
    /\ TunStep
    /\ kfds' = kfds \ {fd}
    /\ fd' = -1
    /\ deviceName' = <<>>
    /\ utunNumber' = IF platform = "macos" THEN -1 ELSE utunNumber
    /\ tunRet' = [op |-> "close"]
    /\ rejected' = FALSE
    /\ nonBlocking' = FALSE
    /\ UNCHANGED <<mtu, lastError>>

\* bool set_non_blocking(bool nonBlocking): fcntl F_GETFL, then F_SETFL.
\* ran is the fcntl calls made.
set_non_blocking(nb) ==
    /\ TunStep
    /\ \E getOk, setOk \in BOOLEAN :
          IF fd < 0
          THEN /\ lastError' = "TUN device not open"
               /\ tunRet' = [op |-> "set_non_blocking", val |-> FALSE, ran |-> <<>>]
               /\ UNCHANGED nonBlocking
          ELSE IF ~getOk
          THEN /\ lastError' = "fcntl F_GETFL failed"
               /\ tunRet' = [op |-> "set_non_blocking", val |-> FALSE,
                              ran |-> <<"F_GETFL">>]
               /\ UNCHANGED nonBlocking
          ELSE IF ~setOk
          THEN /\ lastError' = "fcntl F_SETFL failed"
               /\ tunRet' = [op |-> "set_non_blocking", val |-> FALSE,
                              ran |-> <<"F_GETFL", "F_SETFL">>]
               /\ UNCHANGED nonBlocking
          ELSE /\ nonBlocking' = nb
               /\ tunRet' = [op |-> "set_non_blocking", val |-> TRUE,
                              ran |-> <<"F_GETFL", "F_SETFL">>]
               /\ UNCHANGED lastError
    /\ UNCHANGED <<fd, deviceName, utunNumber, mtu, kfds, rejected>>

\* A datagram is its leading bytes followed by pad zero bytes, so that one
\* longer than the 65536-byte buffers can be written down. The leading bytes
\* never end in a zero: Norm moves such zeros into pad.
RECURSIVE Norm(_)
Norm(d) ==
    IF d.bytes # <<>> /\ d.bytes[Len(d.bytes)] = 0
    THEN Norm([bytes |-> SubSeq(d.bytes, 1, Len(d.bytes) - 1),
               pad |-> d.pad + 1])
    ELSE d

Dg(bs, pad) == Norm([bytes |-> bs, pad |-> pad])

Size(d) == Len(d.bytes) + d.pad

\* buffer[i], counted from 0
ByteAt(d, i) == IF i < Len(d.bytes) THEN d.bytes[i + 1] ELSE 0

\* The first n bytes of d (all of it when it is shorter).
Take(d, n) ==
    IF n <= Len(d.bytes) THEN Dg(SubSeq(d.bytes, 1, n), 0)
    ELSE Dg(d.bytes, Least(d.pad, n - Len(d.bytes)))

\* d without its first n bytes.
Drop(d, n) ==
    IF n <= Len(d.bytes) THEN Dg(SubSeq(d.bytes, n + 1, Len(d.bytes)), d.pad)
    ELSE Dg(<<>>, IF d.pad > n - Len(d.bytes)
                  THEN d.pad - (n - Len(d.bytes)) ELSE 0)

\* bs followed by d
Prepend(bs, d) == Dg(bs \o d.bytes, d.pad)

EmptyDatagram == Dg(<<>>, 0)

\* <sys/socket.h> of macOS
AF_INET == 2

AF_INET6 == 30

\* sizeof(readBuffer), sizeof(writeBuffer)
BufferSize == 65536

\* The IP datagrams that pass through the device: IPv4 (first byte 0x45),
\* IPv6 (0x60) and one that is neither (0x07), two of them as long as the
\* macOS buffers allow and one byte longer.
Packets ==
    { Dg(<<69>>, 0), Dg(<<96, 7>>, 0), Dg(<<7, 69>>, 0), Dg(<<69, 7, 96>>, 0),
      Dg(<<96>>, BufferSize - 5), Dg(<<69>>, BufferSize - 4) }

\* What callers pass to write(): a packet, or nothing at all.
WriteBuffers == Packets \cup {EmptyDatagram}

\* The sizes callers pass to read().
ReadSizes == {0, 1, 2, 1500, 70000}

\* What the underlying ::read or ::write answers: it would block
\* (EAGAIN / EWOULDBLOCK, non-blocking mode only), it fails with another
\* errno, or it transfers a datagram.
KernelAnswers == {"block", "error", "data"}

CanAnswer(k) == k = "block" => nonBlocking

\* The int a read() or write() returns, with what the call was given and what
\* the kernel did: kernel is "closed" (no descriptor), "toolarge" (no call
\* made), or a kernel answer; n is the underlying call's count; wire is the
\* datagram on the kernel's side and data the one on the caller's side.
IoResult(op, val, size, kernel, n, wire, data) ==
    [op |-> op, val |-> val, size |-> size, kernel |-> kernel, n |-> n,
     wire |-> wire, data |-> data]

\* The paths read() and write() share on both platforms.
IoFailed(op, size, kernel, data) ==
    /\ tunRet' = IoResult(op, IF kernel = "block" THEN 0 ELSE -1, size, kernel,
                          -1, EmptyDatagram, data)
    /\ lastError' = IF kernel = "error" THEN op \o " failed"
                    ELSE IF kernel = "toolarge" THEN "Packet too large"
                    ELSE lastError

TunIo == /\ TunStep
         /\ UNCHANGED <<fd, deviceName, utunNumber, mtu, kfds, rejected,
                        nonBlocking>>

\* int TunLinux::read(uint8_t* buffer, size_t size)
TunLinuxRead(size) ==
    /\ TunIo
    /\ platform = "linux"
    /\ IF fd < 0
       THEN IoFailed("read", size, "closed", EmptyDatagram)
       ELSE \E k \in KernelAnswers, pkt \in Packets :
              /\ CanAnswer(k)
              /\ IF k # "data"
                 THEN IoFailed("read", size, k, EmptyDatagram)
                 ELSE LET n == Least(size, Size(pkt))
                      IN  /\ tunRet' = IoResult("read", n, size, k, n, pkt,
                                                Take(pkt, n))
                          /\ UNCHANGED lastError

\* int TunLinux::write(const uint8_t* buffer, size_t size)
TunLinuxWrite(buffer) ==
    /\ TunIo
    /\ platform = "linux"
    /\ IF fd < 0
       THEN IoFailed("write", Size(buffer), "closed", buffer)
       ELSE \E k \in KernelAnswers :
              /\ CanAnswer(k)
              /\ IF k # "data"
                 THEN IoFailed("write", Size(buffer), k, buffer)
                 ELSE /\ tunRet' = IoResult("write", Size(buffer),
                                            Size(buffer), k, Size(buffer),
                                            buffer, buffer)
                      /\ UNCHANGED lastError

\* htonl(v) stored by memcpy(writeBuffer, &af, 4): most significant byte first.
NetworkOrder(v) ==
    <<(v \div 16777216) % 256, (v \div 65536) % 256, (v \div 256) % 256,
      v % 256>>

\* memcpy of a uint32_t that was not passed through htonl, on the
\* little-endian machines macOS runs on.
FamilyOfHostOrder(buffer) ==
    LET af == IF Size(buffer) > 0 /\ ByteAt(buffer, 0) \div 16 = 6
              THEN AF_INET6 ELSE AF_INET
    IN  <<af % 256, (af \div 256) % 256, (af \div 65536) % 256,
          (af \div 16777216) % 256>>

\* The four bytes TunMacOS::write puts before the datagram.
FamilyOf(buffer) ==
    IF Size(buffer) > 0 /\ ByteAt(buffer, 0) \div 16 = 4
    THEN NetworkOrder(AF_INET)
    ELSE IF Size(buffer) > 0 /\ ByteAt(buffer, 0) \div 16 = 6
    THEN NetworkOrder(AF_INET6)
    ELSE NetworkOrder(AF_INET)

\* The frame the utun socket holds for a packet: the kernel's own family
\* word, then the packet.
Frame(pkt) ==
    Prepend(NetworkOrder(IF ByteAt(pkt, 0) \div 16 = 6 THEN AF_INET6
                         ELSE AF_INET), pkt)

\* TunMacOS::read handing the caller what ::read stored, family word included.
TunMacOSReadUnstripped(size) ==
    /\ TunIo
    /\ platform = "macos"
    /\ IF fd < 0
       THEN IoFailed("read", size, "closed", EmptyDatagram)
       ELSE \E k \in KernelAnswers, pkt \in Packets :
              /\ CanAnswer(k)
              /\ IF k # "data"
                 THEN IoFailed("read", size, k, EmptyDatagram)
                 ELSE LET readSize == Least(size + 4, BufferSize)
                          n == Least(readSize, Size(Frame(pkt)))
                          dataSize == Least(n, size)
                      IN  /\ tunRet' =
                                IoResult("read", dataSize, size, k, n,
                                         Frame(pkt),
                                         Take(Frame(pkt), dataSize))
                          /\ UNCHANGED lastError

\* int TunMacOS::read(uint8_t* buffer, size_t size)
TunMacOSRead(size) ==
    /\ TunIo
    /\ platform = "macos"
    /\ IF fd < 0
       THEN IoFailed("read", size, "closed", EmptyDatagram)
       ELSE \E k \in KernelAnswers, pkt \in Packets :
              /\ CanAnswer(k)
              /\ IF k # "data"
                 THEN IoFailed("read", size, k, EmptyDatagram)
                 ELSE LET readSize == Least(size + 4, BufferSize)
                          n == Least(readSize, Size(Frame(pkt)))
                          dataSize == Least(n - 4, size)
                      IN  /\ tunRet' =
                                IF n <= 4
                                THEN IoResult("read", 0, size, k, n,
                                              Frame(pkt), EmptyDatagram)
                                ELSE IoResult("read", dataSize, size, k, n,
                                              Frame(pkt),
                                              Take(Drop(Take(Frame(pkt), n),
                                                        4), dataSize))
                          /\ UNCHANGED lastError

\* int TunMacOS::write(const uint8_t* buffer, size_t size)
TunMacOSWrite(buffer) ==
    /\ TunIo
    /\ platform = "macos"
    /\ IF fd < 0
       THEN IoFailed("write", Size(buffer), "closed", buffer)
       ELSE IF Size(buffer) + 4 > BufferSize
       THEN IoFailed("write", Size(buffer), "toolarge", buffer)
       ELSE \E k \in KernelAnswers :
              /\ CanAnswer(k)
              /\ IF k # "data"
                 THEN IoFailed("write", Size(buffer), k, buffer)
                 ELSE LET n == Size(buffer) + 4
                      IN  /\ tunRet' =
                                IoResult("write", IF n <= 4 THEN 0 ELSE n - 4,
                                         Size(buffer), k, n,
                                         Prepend(FamilyOf(buffer), buffer),
                                         buffer)
                          /\ UNCHANGED lastError

\* A uint32_t is its 32 bits, most significant first.
Bits8(o) == [i \in 1..8 |-> (o \div 2^(8 - i)) % 2]

Octet(b) == 128 * b[1] + 64 * b[2] + 32 * b[3] + 16 * b[4] + 8 * b[5]
               + 4 * b[6] + 2 * b[7] + b[8]

\* inet_pton(AF_INET, ...) == 1: four decimal octets, each at most 255.
IsAddress(a) == Len(a) = 4 /\ \A i \in 1..4 : a[i] \in 0..255

\* ntohl(addr.s_addr) of the address inet_pton parsed.
ToHost(a) == Bits8(a[1]) \o Bits8(a[2]) \o Bits8(a[3]) \o Bits8(a[4])

\* inet_ntop of htonl(v): the dotted quad, as its four octets.
ToAddress(v) ==
    <<Octet(SubSeq(v, 1, 8)), Octet(SubSeq(v, 9, 16)),
      Octet(SubSeq(v, 17, 24)), Octet(SubSeq(v, 25, 32))>>

And32(a, b) == [i \in 1..32 |-> a[i] * b[i]]

Or32(a, b) == [i \in 1..32 |-> IF a[i] + b[i] > 0 THEN 1 ELSE 0]

\* a << n for n < 32
ShiftLeft(a, n) == [i \in 1..32 |-> IF i + n <= 32 THEN a[i + n] ELSE 0]

Low(n) == [i \in 1..32 |-> IF i = 33 - n THEN 1 ELSE 0]

AllOnes == [i \in 1..32 |-> 1]

Zero32 == [i \in 1..32 |-> 0]

RECURSIVE LeadingOnes(_, _)
\* while (mask & 0x80000000) { prefix++; mask <<= 1; } after prefix rounds:
\* the top bit of the shifted mask is bit prefix + 1 of the mask given, and
\* a zero once all 32 are shifted out.
LeadingOnes(mask, prefix) ==
    IF prefix < 32 /\ mask[prefix + 1] = 1
    THEN LeadingOnes(mask, prefix + 1) ELSE prefix

\* static int netmaskToPrefixLength(const std::string& netmask)
netmaskToPrefixLength(netmask) ==
    IF ~IsAddress(netmask) THEN 24 ELSE LeadingOnes(ToHost(netmask), 0)

\* 0xFFFFFFFF << (32 - prefixLength). A shift of a uint32_t by 32 is
\* undefined: the build yields all ones where the count is taken modulo 32
\* and zero where the bits are shifted out.
ShiftedMasks(prefixLength) ==
    IF prefixLength = 0 THEN {AllOnes, Zero32}
    ELSE {ShiftLeft(AllOnes, 32 - prefixLength)}

\* network | 1, or network | 2 when that is the local address.
PeerAddr(ipAddr, mask) ==
    IF Or32(And32(ipAddr, mask), Low(1)) = ipAddr
    THEN Or32(And32(ipAddr, mask), Low(2))
    ELSE Or32(And32(ipAddr, mask), Low(1))

\* The local addresses callers pass to set_ip; the last is no address.
IpStrings ==
    { <<10, 0, 0, 1>>, <<10, 0, 0, 2>>, <<10, 0, 0, 3>>, <<10, 0, 0, 256>> }

\* The prefix lengths of the netmasks callers pass.
PrefixLengths == {0, 1, 8, 16, 24, 29, 30, 31, 32}

\* The netmasks callers pass, and one that is no address.
NetmaskStrings ==
    { ToAddress([i \in 1..32 |-> IF i <= n THEN 1 ELSE 0]) :
        n \in PrefixLengths } \cup { <<255, 255, 255>> }

SetIpResult(val, ip, netmask, peer) ==
    [op |-> "set_ip", val |-> val, ip |-> ip, netmask |-> netmask,
     peer |-> peer]

\* bool TunMacOS::set_ip(const std::string& ip, const std::string& netmask)
\* peer is the peer address of the ifconfig command, <<>> when none was run.
TunMacOSSetIp(ip, netmask) ==
    /\ TunStep
    /\ platform = "macos"
    /\ UNCHANGED <<fd, deviceName, utunNumber, mtu, kfds, rejected,
                   nonBlocking>>
    /\ IF fd < 0 \/ deviceName = <<>>
       THEN /\ lastError' = "TUN device not open"
            /\ tunRet' = SetIpResult(FALSE, ip, netmask, <<>>)
       ELSE IF ~IsAddress(ip)
       THEN /\ lastError' = "Invalid IP address"
            /\ tunRet' = SetIpResult(FALSE, ip, netmask, <<>>)
       ELSE \E mask \in ShiftedMasks(netmaskToPrefixLength(netmask)),
               commandOk \in BOOLEAN :
              LET peer == ToAddress(PeerAddr(ToHost(ip), mask))
              IN  IF commandOk
                  THEN /\ tunRet' = SetIpResult(TRUE, ip, netmask, peer)
                       /\ UNCHANGED lastError
                  ELSE /\ tunRet' = SetIpResult(FALSE, ip, netmask, peer)
                       /\ lastError' = "Failed to set IP address"

\* ------------------------------------------- set_mtu, set_up, Linux set_ip

\* What a configuring call was given and returned, and the commands it handed
\* to runCommand (system()), in order.
ConfigResult(op, val, given, ran) ==
    [op |-> op, val |-> val, given |-> given, ran |-> ran]

\* "ip link set dev <deviceName_> ..." on Linux, "ifconfig <deviceName_> ..."
\* on macOS.
LinkCommand(args) ==
    [tool |-> IF platform = "linux" THEN "ip link set dev" ELSE "ifconfig",
     dev |-> deviceName, args |-> args]

\* A configuring call changes neither the descriptor nor the name.
TunConfig ==
    /\ TunStep
    /\ UNCHANGED <<fd, deviceName, utunNumber, kfds, rejected, nonBlocking>>

\* set_mtu without the test for an open device.
set_mtuUnguarded(m) ==
    /\ TunConfig
    /\ mtu' = m
    /\ \E commandOk \in BOOLEAN :
          /\ tunRet' = ConfigResult("set_mtu", commandOk, m,
                                    <<LinkCommand(<<"mtu", m>>)>>)
          /\ lastError' = IF commandOk THEN lastError ELSE "Failed to set MTU"

\* bool set_mtu(int mtu), the same on both platforms but for the command.
set_mtu(m) ==
    /\ TunConfig
    /\ IF fd < 0 \/ deviceName = <<>>
       THEN /\ lastError' = "TUN device not open"
            /\ tunRet' = ConfigResult("set_mtu", FALSE, m, <<>>)
            /\ UNCHANGED mtu
       ELSE /\ mtu' = m
            /\ \E commandOk \in BOOLEAN :
                  /\ tunRet' = ConfigResult("set_mtu", commandOk, m,
                                            <<LinkCommand(<<"mtu", m>>)>>)
                  /\ lastError' = IF commandOk THEN lastError
                                  ELSE "Failed to set MTU"

\* bool set_up(bool up), the same on both platforms but for the command.
set_up(up) ==
    /\ TunConfig
    /\ UNCHANGED mtu
    /\ IF fd < 0 \/ deviceName = <<>>
       THEN /\ lastError' = "TUN device not open"
            /\ tunRet' = ConfigResult("set_up", FALSE, up, <<>>)
       ELSE \E commandOk \in BOOLEAN :
              /\ tunRet' = ConfigResult("set_up", commandOk, up,
                    <<LinkCommand(<<IF up THEN "up" ELSE "down">>)>>)
              /\ lastError' = IF commandOk THEN lastError
                              ELSE "Failed to set interface state"

\* "ip addr add <ip>/<prefixLength> dev <deviceName_>"
AddrAdd(ip, prefixLength) ==
    [tool |-> "ip addr add", dev |-> deviceName, args |-> <<ip, prefixLength>>]

\* "ip addr flush dev <deviceName_>"
AddrFlush == [tool |-> "ip addr flush dev", dev |-> deviceName, args |-> <<>>]

\* bool TunLinux::set_ip(const std::string& ip, const std::string& netmask):
\* the address is added; when that fails the device's addresses are flushed
\* and it is added again.
TunLinuxSetIp(ip, netmask) ==
    /\ TunConfig
    /\ platform = "linux"
    /\ UNCHANGED mtu
    /\ IF fd < 0 \/ deviceName = <<>>
       THEN /\ lastError' = "TUN device not open"
            /\ tunRet' = ConfigResult("set_ip", FALSE, <<ip, netmask>>, <<>>)
       ELSE IF ~IsAddress(ip)
       THEN /\ lastError' = "Invalid IP address"
            /\ tunRet' = ConfigResult("set_ip", FALSE, <<ip, netmask>>, <<>>)
       ELSE \E addOk, againOk \in BOOLEAN :
              LET add == AddrAdd(ip, netmaskToPrefixLength(netmask))
              IN  IF addOk
                  THEN /\ tunRet' = ConfigResult("set_ip", TRUE, <<ip, netmask>>,
                                                 <<add>>)
                       /\ UNCHANGED lastError
                  ELSE /\ tunRet' = ConfigResult("set_ip", againOk,
                                        <<ip, netmask>>, <<add, AddrFlush, add>>)
                       /\ lastError' = IF againOk THEN lastError
                                       ELSE "Failed to set IP address"

\* ------------------------------------------------------- bridge ingress
\* The bridge's sources are not among the sources: its ingress path is that
\* of the specification (4.5) on the wire frame of its section 6, handed one
\* {sender, payload} at a time by the poll engine.

\* The inbound messages the bridge is handed in a run.
MaxFrames == 2

IP_PACKET == 2

PING == 3

PONG == 4

\* offset 0: u8 type; offset 1: u16 length; offset 3: payload
HeaderSize == 3

\* The datagrams the transport delivers: a hello, an IP packet, a ping and a
\* pong; two of unknown type; one that declares five payload bytes and
\* carries one, one that declares 256 and carries one, and one cut short
\* by a byte.
Datagrams ==
    { <<1, 0, 0>>, <<2, 0, 2, 69, 7>>, <<3, 0, 1, 9>>, <<4, 0, 1, 9>>,
      <<255, 0, 0>>, <<0, 0, 1, 69>>,
      <<2, 0, 5, 69>>, <<2, 1, 0, 69>>, <<2, 0, 2, 69>> }

FrameType(d) == d[1]

\* The length read with its bytes in the order of the machine.
DeclaredLengthHostOrder(d) == d[3] * 256 + d[2]

\* u16 length, network byte order
DeclaredLength(d) == d[2] * 256 + d[3]

FramePayload(d) == SubSeq(d, HeaderSize + 1, HeaderSize + DeclaredLength(d))

\* A frame that is dropped and counted: no whole header, a type that is none
\* of the four, or more payload declared than the datagram holds.
IsMalformed(d) ==
    \/ Len(d) < HeaderSize
    \/ FrameType(d) \notin {SESSION_HELLO, IP_PACKET, PING, PONG}
    \/ HeaderSize + DeclaredLength(d) > Len(d)

\* Every sender passes.
AnySender(sender, registry) == TRUE

\* require sender in MembershipRegistry
KnownSender(sender, registry) == sender \in registry

\* Bridge.onInboundMessage for one {sender, payload}: the registry is looked
\* up under its mutex, which is released before the frame is acted on.
OnInboundMessage(sender, d) ==
    /\ ~crashed
    /\ vpnBridge
    /\ mutex = 0
    /\ nIn < MaxFrames
    /\ nIn' = nIn + 1
    /\ IF ~KnownSender(sender, peers)
       THEN /\ lastIn' = [sender |-> sender, bytes |-> d,
                          verdict |-> "stranger"]
            /\ UNCHANGED <<tunWrites, replies, malformed, reachable,
                           pongSeen>>
       ELSE IF IsMalformed(d)
       THEN /\ lastIn' = [sender |-> sender, bytes |-> d,
                          verdict |-> "malformed"]
            /\ malformed' = malformed + 1
            /\ UNCHANGED <<tunWrites, replies, reachable, pongSeen>>
       ELSE /\ lastIn' = [sender |-> sender, bytes |-> d,
                          verdict |-> "dispatched"]
            /\ reachable' = IF FrameType(d) = SESSION_HELLO
                            THEN reachable \cup {sender} ELSE reachable
            /\ tunWrites' = IF FrameType(d) = IP_PACKET
                            THEN Append(tunWrites, FramePayload(d))
                            ELSE tunWrites
            /\ replies' = IF FrameType(d) = PING
                          THEN Append(replies,
                                      [to |-> sender,
                                       frame |-> <<PONG>> \o SubSeq(d, 2, 3)
                                                    \o FramePayload(d)])
                          ELSE replies
            /\ pongSeen' = IF FrameType(d) = PONG
                           THEN pongSeen \cup {sender} ELSE pongSeen
            /\ UNCHANGED malformed
    /\ UNCHANGED <<mgrVars, envVars, thrVars, obsVars, pollVars, dying,
                   sessionInfo, tunVars, watch, lastNote>>

\* ------------------------------------------------------- notifications
\* The record of what the bridge is told starts with a bridge attached, the
\* transport at hand, an empty registry and no call running.
Watch ==
    /\ ~watch
    /\ ~crashed
    /\ vpnBridge
    /\ iface
    /\ peers = {}
    /\ \A t \in Threads : pc[t] = "idle"
    /\ watch' = TRUE
    /\ UNCHANGED <<mgrVars, envVars, thrVars, obsVars, pollVars, dying,
                   sessionInfo, tunVars, bridgeVars, lastNote>>

\* ------------------------------------------------------- specification

Next ==
    \/ \E t \in Threads, p \in CSteamID : AddPeerCall(t, p)
    \/ \E t \in Threads : AddPeerInsert(t)
    \/ \E t \in Threads : AddPeerHello(t)
    \/ \E t \in Threads : AddPeerNotify(t)
    \/ \E t \in Threads : AddPeerReturn(t)
    \/ \E t \in Threads, p \in Others : RemovePeerCall(t, p)
    \/ \E t \in Threads : RemovePeerErase(t)
    \/ \E t \in Threads : RemovePeerClose(t)
    \/ \E t \in Threads : RemovePeerNotify(t)
    \/ \E t \in Threads : RemovePeerReturn(t)
    \/ \E t \in Threads : ClearPeersCall(t)
    \/ \E t \in Threads : ClearPeersLock(t)
    \/ \E t \in Threads : ClearPeersClose(t)
    \/ \E t \in Threads : ClearPeersNotify(t)
    \/ \E t \in Threads : ClearPeersClear(t)
    \/ \E t \in Threads : ClearPeersReturn(t)
    \/ \E t \in Threads : ShutdownCall(t)
    \/ \E t \in Threads : ShutdownLock(t)
    \/ \E t \in Threads : ShutdownClose(t)
    \/ \E t \in Threads : ShutdownClear(t)
    \/ \E t \in Threads : ShutdownReturn(t)
    \/ \E t \in Threads, p \in Others, f \in UserFlags : SendMessageToUserCall(t, p, f)
    \/ \E t \in Threads : SendMessageToUserSend(t)
    \/ \E t \in Threads : SendMessageToUserReturn(t)
    \/ \E t \in Threads, f \in UserFlags : BroadcastMessageCall(t, f)
    \/ \E t \in Threads : BroadcastMessageLock(t)
    \/ \E t \in Threads : BroadcastMessageSend(t)
    \/ \E t \in Threads : BroadcastMessageDone(t)
    \/ \E t \in Threads : BroadcastMessageReturn(t)
    \/ \E t \in Threads : GetPeersCall(t)
    \/ \E t \in Threads : GetPeersCopy(t)
    \/ \E t \in Threads : GetPeersReturn(t)
    \/ \E t \in Threads : IsConnectedCall(t)
    \/ \E t \in Threads : IsConnectedReturn(t)
    \/ \E t \in Threads, p \in Others : OnSessionRequestCall(t, p)
    \/ \E t \in Threads : OnSessionRequestAccept(t)
    \/ \E t \in Threads : OnSessionRequestReturn(t)
    \/ \E t \in Threads, p \in Others : OnSessionFailedCall(t, p)
    \/ \E t \in Threads : OnSessionFailed(t)
    \/ \E t \in Threads : OnSessionFailedReturn(t)
    \/ \E t \in Threads, r \in BOOLEAN : initialize(t, r)
    \/ \E t \in Threads, b \in BOOLEAN : setVpnBridge(t, b)

Spec == Init /\ [][Next]_vars

\* The life of the manager and of its poll engine: one thread of the host
\* application sets the manager up, adds peers, starts and stops the engine
\* and destroys the manager, while the engine's executor and the transport
\* take their own steps.
Host == {1}

PollNext ==
    \/ \E t \in Host, r \in BOOLEAN : initialize(t, r)
    \/ \E t \in Host, p \in CSteamID : AddPeerCall(t, p)
    \/ \E t \in Host : AddPeerInsert(t)
    \/ \E t \in Host : AddPeerHello(t)
    \/ \E t \in Host : AddPeerNotify(t)
    \/ \E t \in Host : AddPeerReturn(t)
    \/ \E t \in Host, ext \in BOOLEAN : setIoContext(t, ext)
    \/ \E t \in Host : startMessageHandler(t)
    \/ \E t \in Host : StopMessageHandlerCall(t)
    \/ \E t \in Host : StopFlag(t)
    \/ \E t \in Host : StopCancel(t)
    \/ \E t \in Host : StopJoin(t)
    \/ \E t \in Host : StopReturn(t)
    \/ \E t \in Host : DtorCall(t)
    \/ \E t \in Host : DtorDelete(t)
    \/ \E t \in Host : ShutdownLock(t)
    \/ \E t \in Host : ShutdownClose(t)
    \/ \E t \in Host : ShutdownClear(t)
    \/ \E t \in Host : ShutdownReturn(t)
    \/ Arrive
    \/ TimerFire
    \/ DrainOne
    \/ DrainEnd
    \/ SchedulePoll

PollSpec == Init /\ [][PollNext]_vars

\* The stats queries, made by the host's thread at any time while the
\* transport's sessions come, change and go.
StatsNext ==
    \/ \E t \in Host, r \in BOOLEAN : initialize(t, r)
    \/ \E p \in Others, info \in SessionInfos : SessionChange(p, info)
    \/ \E t \in Host, p \in Others : GetPeerPingCall(t, p)
    \/ \E t \in Host, p \in Others : IsPeerConnectedCall(t, p)
    \/ \E t \in Host, p \in Others : GetPeerConnectionTypeCall(t, p)
    \/ \E t \in Host : StatsReturn(t)

StatsSpec == Init /\ [][StatsNext]_vars

\* The TUN device of the build's platform, driven by its one user.
TunNext ==
    \/ \E pf \in {"linux", "macos"} : create_tun(pf)
    \/ \E name \in DeviceNames, m \in Mtus : TunLinuxOpen(name, m)
    \/ \E name \in DeviceNames, m \in Mtus : TunMacOSOpen(name, m)
    \/ TunClose
    \/ \E nb \in BOOLEAN : set_non_blocking(nb)
    \/ \E size \in ReadSizes : TunLinuxRead(size)
    \/ \E buffer \in WriteBuffers : TunLinuxWrite(buffer)
    \/ \E size \in ReadSizes : TunMacOSRead(size)
    \/ \E buffer \in WriteBuffers : TunMacOSWrite(buffer)

TunSpec == Init /\ [][TunNext]_vars

\* The configuration of the macOS device: it is made, opened under the name
\* the system chooses, given addresses, and closed.
IpNext ==
    \/ create_tun("macos")
    \/ TunMacOSOpen(<<>>, 1500)
    \/ TunClose
    \/ \E ip \in IpStrings, netmask \in NetmaskStrings :
          TunMacOSSetIp(ip, netmask)

IpSpec == Init /\ [][IpNext]_vars

\* The addresses and netmasks the device is configured with here.
ConfigIps == { <<10, 0, 0, 1>>, <<10, 0, 0, 256>> }

ConfigNetmasks == { <<255, 255, 255, 0>>, <<255, 255, 255>> }

\* The device of either platform opened, configured, used and closed, in
\* any order and any number of times.
ConfigNext ==
    \/ \E pf \in {"linux", "macos"} : create_tun(pf)
    \/ \E name \in {<<>>, <<"t", "u", "n", "0">>}, m \in Mtus :
          TunLinuxOpen(name, m)
    \/ \E name \in {<<>>, <<"u", "t", "u", "n", "5">>}, m \in Mtus :
          TunMacOSOpen(name, m)
    \/ TunClose
    \/ \E nb \in BOOLEAN : set_non_blocking(nb)
    \/ \E m \in Mtus : set_mtu(m)
    \/ \E up \in BOOLEAN : set_up(up)
    \/ \E ip \in ConfigIps, netmask \in ConfigNetmasks : TunLinuxSetIp(ip, netmask)
    \/ \E ip \in ConfigIps, netmask \in ConfigNetmasks : TunMacOSSetIp(ip, netmask)
    \/ \E size \in {0, 1500} : TunLinuxRead(size)
    \/ \E size \in {0, 1500} : TunMacOSRead(size)
    \/ \E buffer \in {EmptyDatagram, Dg(<<69>>, 0)} : TunLinuxWrite(buffer)
    \/ \E buffer \in {EmptyDatagram, Dg(<<69>>, 0)} : TunMacOSWrite(buffer)

ConfigSpec == Init /\ [][ConfigNext]_vars

\* The bridge's ingress path while the host's thread changes the registry.
BridgeNext ==
    \/ \E t \in Host, r \in BOOLEAN : initialize(t, r)
    \/ \E t \in Host, b \in BOOLEAN : setVpnBridge(t, b)
    \/ \E t \in Host, p \in CSteamID : AddPeerCall(t, p)
    \/ \E t \in Host : AddPeerInsert(t)
    \/ \E t \in Host : AddPeerHello(t)
    \/ \E t \in Host : AddPeerNotify(t)
    \/ \E t \in Host : AddPeerReturn(t)
    \/ \E t \in Host, p \in Others : RemovePeerCall(t, p)
    \/ \E t \in Host : RemovePeerErase(t)
    \/ \E t \in Host : RemovePeerClose(t)
    \/ \E t \in Host : RemovePeerNotify(t)
    \/ \E t \in Host : RemovePeerReturn(t)
    \/ \E sender \in CSteamID, d \in Datagrams : OnInboundMessage(sender, d)

BridgeSpec == Init /\ [][BridgeNext]_vars

\* addPeer, removePeer and clearPeers called from two threads at once; the
\* bridge's record starts at a moment the registry is empty.
NotifyNext ==
    \/ \E t \in Host : initialize(t, TRUE)
    \/ \E t \in Host : setVpnBridge(t, TRUE)
    \/ Watch
    \/ \E t \in Threads, p \in Others : AddPeerCall(t, p)
    \/ \E t \in Threads : AddPeerInsert(t)
    \/ \E t \in Threads : AddPeerHello(t)
    \/ \E t \in Threads : AddPeerNotify(t)
    \/ \E t \in Threads : AddPeerReturn(t)
    \/ \E t \in Threads, p \in Others : RemovePeerCall(t, p)
    \/ \E t \in Threads : RemovePeerErase(t)
    \/ \E t \in Threads : RemovePeerClose(t)
    \/ \E t \in Threads : RemovePeerNotify(t)
    \/ \E t \in Threads : RemovePeerReturn(t)
    \/ \E t \in Threads : ClearPeersCall(t)
    \/ \E t \in Threads : ClearPeersLock(t)
    \/ \E t \in Threads : ClearPeersClose(t)
    \/ \E t \in Threads : ClearPeersNotify(t)
    \/ \E t \in Threads : ClearPeersClear(t)
    \/ \E t \in Threads : ClearPeersReturn(t)

NotifySpec == Init /\ [][NotifyNext]_vars


\* ================================================================ claims

AddPcs == {"add_insert", "add_hello", "add_notify", "add_ret"}

\* The pcs at which a thread is inside a critical section of peersMutex_.
HoldingPcs == {"rm_close", "rm_notify", "rm_ret", "clr_close", "clr_notify",
               "clr_ret", "sd_close", "bc_send", "osr_ret"}

Called(t, kind, p) == Count(trace[t], <<kind, p>>)

\* C1: for p # self, the second of two addPeer(p) calls made in a row (no other
\* call running between the first call's entry and the second call's return)
\* leaves the peer set as the first call left it and makes no call to the
\* transport or the bridge: no SESSION_HELLO, no onUserJoined.
C1_AddPeerIdempotent ==
    \A t \in Threads :
        (pc[t] = "add_ret" /\ solo[t] = "second" /\ arg[t] # Self)
            => /\ peers = pre[t]
               /\ arg[t] \in peers
               /\ trace[t] = <<>>
               /\ ev = NoEv

C1_Witness ==
    \E t \in Threads :
        /\ pc[t] = "add_ret" /\ solo[t] = "second" /\ arg[t] # Self
        /\ Cardinality(peers) = 2

\* C2 (as claimed): once removePeer(p) has returned, no transport send targets
\* p until a new addPeer(p) is invoked.
C2_NoSendAfterRemove ==
    ev.kind = "send" => ev.to \notin removed

C4_SelfNeverPeer ==
    /\ Self \notin peers
    /\ \A t \in Threads :
         (pc[t] \in AddPcs /\ arg[t] = Self)
            => /\ pc[t] = "add_ret"
               /\ trace[t] = <<>>
               /\ ev.kind # "none" => ev.by # t
    /\ ev.kind \in {"send", "joined"} => ev.to # Self

C4_Witness ==
    \E t \in Threads :
        pc[t] = "add_ret" /\ arg[t] = Self /\ peers # {} /\ iface

\* C5: the number of SESSION_HELLO frames sent to p equals the number of
\* absent->present transitions of p, less the addPeer calls that have made the
\* transition and are about to send; an addPeer that made the transition has
\* sent exactly one frame when it returns, one that did not has sent none; the
\* frame is type 1, length 0, no payload, reliable + auto-restart, channel 0.
C5_OneHelloPerTransition ==
    /\ \A p \in CSteamID :
         helloDebt[p] = Cardinality({t \in Threads : pc[t] = "add_hello" /\ arg[t] = p})
    /\ \A t \in Threads :
         /\ pc[t] \in {"add_notify", "add_ret"} /\ isNewPeer[t]
                => Called(t, "send", arg[t]) = 1
         /\ pc[t] = "add_ret" /\ ~isNewPeer[t] => trace[t] = <<>>
    /\ (ev.kind = "send" /\ pc[ev.by] = "add_notify")
            => /\ ev.to = arg[ev.by]
               /\ ev.msg = [type |-> 1, length |-> 0, payload |-> <<>>]
               /\ ev.flags = {"Reliable", "AutoRestartBrokenSession"}
               /\ ev.channel = 0

\* Two concurrent addPeer(p) for an absent p: one made the transition and has
\* sent its HELLO, the other found p present and is returning.
C5_Witness ==
    \E t, u \in Threads :
        /\ t # u /\ arg[t] = arg[u]
        /\ pc[t] = "add_notify" /\ isNewPeer[t] /\ ev.kind = "send" /\ ev.by = t
        /\ pc[u] = "add_ret" /\ ~isNewPeer[u] /\ arg[u] # Self


\* The running call of t has reached the CloseSessionWithUser statement for p
\* once: with an interface it made the call, without one it skipped it.
ClosedOnce(t, p) == Called(t, "close", p) + Called(t, "noiface", p) = 1

\* The same for the onUserLeft statement and the bridge pointer.
LeftOnce(t, p) == Called(t, "left", p) + Called(t, "nobridge", p) = 1

\* C6 (as claimed): a thread that has erased a peer has requested the close of
\* that peer's session by the time it notifies or returns (removePeer), or
\* before it empties the set (clearPeers, shutdown).
C6_EveryRemovalCloses ==
    \A t \in Threads :
        /\ (pc[t] \in {"rm_notify", "rm_ret"} /\ Called(t, "erase", arg[t]) > 0)
                => Called(t, "close", arg[t]) = 1
        /\ (pc[t] \in {"clr_close", "sd_close"} /\ iter[t] = {})
                => \A p \in peers : Called(t, "close", p) = 1
        /\ pc[t] \in {"clr_ret", "sd_ret"}
                => \A p \in pre[t] : Called(t, "close", p) = 1

C6_Closed ==
    \A t \in Threads :
        /\ (pc[t] \in {"rm_notify", "rm_ret"} /\ Called(t, "erase", arg[t]) > 0)
                => ClosedOnce(t, arg[t])
        /\ (pc[t] \in {"clr_close", "sd_close"} /\ iter[t] = {})
                => \A p \in peers : ClosedOnce(t, p)
        /\ pc[t] \in {"clr_ret", "sd_ret"}
                => \A p \in pre[t] : ClosedOnce(t, p)

\* No step takes a peer out of the set except removePeer's erase, which goes
\* on to the close statement, and the clear of clearPeers and shutdown, which
\* comes after it.
C6_Step ==
    \A p \in peers \ peers' :
        \E t \in Threads :
            \/ pc[t] = "rm_erase" /\ pc'[t] = "rm_close" /\ arg[t] = p
            \/ /\ pc[t] \in {"clr_close", "sd_close"}
               /\ pc'[t] \in {"clr_ret", "sd_ret"}
               /\ ClosedOnce(t, p)

\* The close statement calls CloseSessionWithUser whenever the interface is set.
C6_CloseStep ==
    \A t \in Threads :
        (pc[t] \in {"rm_close", "clr_close", "sd_close"} /\ trace'[t] # trace[t] /\ iface)
            => ev'.kind = "close" /\ ev'.by = t /\ ev'.to \notin sessions'

\* C6 (amended): every removal of a registry entry made while the transport
\* interface is available is accompanied by a CloseSessionWithUser request for
\* that peer; with no interface the entry is removed without a request.
C6_RemovalRequestsClose == []C6_Closed /\ [][C6_Step /\ C6_CloseStep]_vars

C6_Witness ==
    \E t \in Threads :
        /\ pc[t] = "sd_ret"
        /\ Cardinality(pre[t]) = 2
        /\ peers = {}

C9_AcceptIffMember ==
    /\ \A t \in Threads :
         pc[t] = "osr_ret"
            => /\ mutex = t
               /\ peers = pre[t]
               /\ Called(t, "accept", arg[t]) = (IF arg[t] \in peers THEN 1 ELSE 0)
               /\ Len(trace[t]) = (IF arg[t] \in peers THEN 1 ELSE 0)
    /\ ev.kind = "accept"
            => /\ ev.to \in peers
               /\ mutex = ev.by
               /\ \A u \in Threads \ {ev.by} : pc[u] \notin HoldingPcs

\* A request from a peer that removePeer has removed: not accepted.
C9_Witness ==
    \E t \in Threads :
        /\ pc[t] = "osr_ret"
        /\ arg[t] \in removed /\ arg[t] \notin peers
        /\ peers # {}

C10_FailedStep ==
    \A t \in Threads :
        (pc'[t] # pc[t] /\ ("osf_log" \in {pc[t], pc'[t]} \/ pc[t] = "osf_ret"))
            => /\ UNCHANGED <<mgrVars, envVars, helloDebt>>
               /\ ev' = NoEv
               /\ trace'[t] = <<>>

C11_IntervalWithinBounds ==
    /\ MIN_POLL_INTERVAL <= currentPollInterval
    /\ currentPollInterval <= MAX_POLL_INTERVAL

\* The interval has been held at the maximum by a tick that would have passed
\* it, and the engine has been stopped since.
C11_Witness ==
    /\ currentPollInterval = MAX_POLL_INTERVAL
    /\ idleRun * POLL_INCREMENT + MIN_POLL_INTERVAL > MAX_POLL_INTERVAL
    /\ stopped

C12_Backoff ==
    currentPollInterval =
        Least(MIN_POLL_INTERVAL + idleRun * POLL_INCREMENT, MAX_POLL_INTERVAL)

C12_Collapse ==
    (wk = "drain" /\ wk' = "sched" /\ got > 0)
        => currentPollInterval' = MIN_POLL_INTERVAL

C13_NoTickAfterStop == [][(stopped /\ stopped') => UNCHANGED <<wk, got>>]_vars

C14_Order ==
    \A t \in Threads :
        /\ (dying /\ pc[t] \in {"sd_lock", "sd_close", "sd_ret"} /\ messageHandler)
              => (stopped /\ ~running /\ pollTimer = "none")
        /\ (dying /\ pc[t] = "sd_ret")
              => /\ peers = {}
                 /\ \A p \in CSteamID :
                        Called(t, "close", p) = IF p \in pre[t] THEN 1 ELSE 0

C14_NoTick ==
    (dying /\ \E t \in Threads : pc[t] \in {"dt_delete", "sd_lock", "sd_close", "sd_ret"})
        => ~(wk # "drain" /\ wk' = "drain")

C15_BroadcastSnapshot ==
    /\ \A t \in Threads :
        /\ pc[t] = "bc_send"
              => /\ mutex = t
                 /\ peers = pre[t]
                 /\ \A p \in CSteamID :
                        Called(t, "send", p) =
                            IF p \in pre[t] \ iter[t] THEN 1 ELSE 0
        /\ (pc[t] = "bc_ret" /\ mutex = t)
              => \A p \in CSteamID :
                     Called(t, "send", p) = IF p \in pre[t] THEN 1 ELSE 0
        /\ (pc[t] = "bc_ret" /\ mutex # t) => trace[t] = <<>>
    /\ (ev.kind = "send" /\ pc[ev.by] = "bc_send")
          => /\ ev.to \in pre[ev.by]
             /\ ev.flags = flags[ev.by]
             /\ ev.channel = 0
             /\ ev.msg = UserMsg

\* A reliable broadcast has sent to both members while another thread's
\* addPeer or removePeer waits for the mutex.
C15_Witness ==
    \E t \in Threads :
        /\ pc[t] = "bc_ret"
        /\ mutex = t
        /\ pre[t] = Others
        /\ flags[t] = {"Reliable"}
        /\ \E u \in Threads \ {t} : pc[u] \in {"add_insert", "rm_erase"}

\* -------------------------------------------------------------- stats

C16_Step ==
    \A t \in Threads :
        (pc[t] = "idle" /\ pc'[t] = "st_ret") =>
            LET r == retval'[t]
                info == sessionInfo[arg'[t]]
                up == iface /\ info.state = "Connected"
            IN  /\ r.op = "isPeerConnected" => (r.val <=> up)
                /\ r.op = "getPeerPing" => r.val = IF up THEN info.ping ELSE -1
                /\ r.op = "getPeerConnectionType"
                      => /\ ~up => r.val = "N/A"
                         /\ up => r.val \in {"relayed", "direct"}
                         /\ up => (r.val = "relayed" <=> "Relayed" \in info.flags)

\* C16: for every peer and every state of its session, the three queries
\* agree with that state: when the session is not Connected, or the interface
\* is unavailable, isPeerConnected is false, getPeerPing is -1 and
\* getPeerConnectionType is N/A; when it is Connected, isPeerConnected is true,
\* getPeerPing is the transport's ping, and the type is relayed exactly when
\* the relayed flag is set, direct otherwise.
C16_StatsConsistent == [][C16_Step]_vars

\* The type of a Connected session whose flags hold more than the relayed bit
\* has been queried and reported relayed.
C16_Witness ==
    \E t \in Threads :
        /\ pc[t] = "st_ret"
        /\ retval[t] = [op |-> "getPeerConnectionType", val |-> "relayed"]
        /\ iface
        /\ sessionInfo[arg[t]].state = "Connected"
        /\ sessionInfo[arg[t]].flags = {"Relayed", "Fast"}

\* ------------------------------------------------------- C17
\* No descriptor is held by a closed device, and an open one holds its own.
C17_NoLeak == kfds = IF fd >= 0 THEN {fd} ELSE {}

\* What a call of open() does, by the state it is made in and the kernel's
\* answer.
C17_Open ==
    tunRet'.op = "open" =>
        /\ fd >= 0 => /\ tunRet'.val = FALSE
                      /\ UNCHANGED <<fd, deviceName, kfds>>
        /\ (fd < 0 /\ tunRet'.kernel = "rejected")
              => /\ tunRet'.val = FALSE
                 /\ fd' = -1
                 /\ kfds' = kfds
        /\ tunRet'.val = TRUE => /\ fd < 0
                                 /\ fd' >= 0
                                 /\ deviceName' # <<>>

\* C17: open returns false when the device is already open and leaves the
\* descriptor, the device name and is_open() = true as they were; when the
\* kernel rejects the request it returns false with the device closed and no
\* descriptor leaked, and a later open may succeed.
C17_OpenContract == []C17_NoLeak /\ [][C17_Open]_vars

\* An open was rejected by the kernel and a later open of the same device
\* succeeded.
C17_Witness ==
    /\ rejected
    /\ tunRet = OpenResult(TRUE, "ok")
    /\ fd >= 0

\* ------------------------------------------------------- C18
\* The state is the return of a read() or write().
C18_Returned == tunRet.op \in {"read", "write"}

\* The payload bytes the underlying call transferred: all of its count on
\* Linux, its count less the 4-byte family word on macOS.
C18_Payload ==
    IF platform = "macos"
    THEN (IF tunRet.n > 4 THEN tunRet.n - 4 ELSE 0)
    ELSE tunRet.n

\* What a macOS read hands the caller: the bytes after the family word.
C18_Stripped ==
    (platform = "macos" /\ tunRet.op = "read" /\ tunRet.kernel = "data")
        => /\ tunRet.data = Take(Drop(tunRet.wire, 4), tunRet.val)
           /\ Size(tunRet.data) = tunRet.val
           /\ tunRet.val <= tunRet.size

\* C18 (as claimed): read and write return 0 exactly when the underlying call
\* would block, a positive count of payload bytes when it succeeds, and -1 on
\* any other error or when the device is not open; a macOS read returns the
\* bytes that follow the 4-byte prefix and its count excludes the prefix.
C18_ZeroOnlyWhenBlocked ==
    C18_Returned =>
        /\ tunRet.val = 0 <=> tunRet.kernel = "block"
        /\ tunRet.kernel = "data" => tunRet.val > 0
        /\ tunRet.kernel \in {"closed", "error", "toolarge"} => tunRet.val = -1
        /\ C18_Stripped

\* C18 (amended): read and write return -1 when the device is not open, when
\* the underlying call fails with an error other than EAGAIN / EWOULDBLOCK,
\* and (macOS write) when the datagram and its prefix exceed the 65536-byte
\* buffer; they return 0 when the underlying call would block and also when it
\* succeeds without transferring a payload byte; otherwise they return the
\* positive count of payload bytes transferred. A macOS read returns the
\* bytes that follow the 4-byte prefix and its count excludes the prefix.
C18_Classified ==
    C18_Returned =>
        /\ tunRet.kernel \in {"closed", "error", "toolarge"} => tunRet.val = -1
        /\ tunRet.kernel = "block" => tunRet.val = 0
        /\ tunRet.kernel = "data" => /\ tunRet.val = C18_Payload
                                     /\ tunRet.val >= 0
        /\ tunRet.val = 0 <=> \/ tunRet.kernel = "block"
                              \/ tunRet.kernel = "data" /\ C18_Payload = 0
        /\ (tunRet.op = "read" /\ tunRet.kernel = "data" /\ platform = "linux")
              => tunRet.data = Take(tunRet.wire, tunRet.val)
        /\ C18_Stripped

\* A macOS read has returned part of a datagram that was longer than the
\* caller's buffer: two payload bytes of three, after the family word.
C18_Witness ==
    /\ platform = "macos"
    /\ tunRet.op = "read"
    /\ tunRet.kernel = "data"
    /\ tunRet.val = 2
    /\ tunRet.n = 6
    /\ tunRet.wire = Dg(<<0, 0, 0, 2, 69, 7, 96>>, 0)
    /\ tunRet.data = Dg(<<69, 7>>, 0)

\* ------------------------------------------------------- C19
\* v + 1 as a uint32_t: a bit changes when every bit below it is set.
PlusOne(v) ==
    [i \in 1..32 |-> IF \A j \in (i + 1)..32 : v[j] = 1 THEN 1 - v[i]
                     ELSE v[i]]

\* set_ip has worked out a peer address for a local address and a netmask
\* that are both addresses.
C19_Computed ==
    /\ tunRet.op = "set_ip"
    /\ tunRet.peer # <<>>
    /\ IsAddress(tunRet.netmask)

\* C19: for every local IPv4 address and every netmask, the peer address the
\* macOS set_ip computes is network + 1, or network + 2 when network + 1 is
\* the local address; it is never the local address, and it lies inside the
\* subnet (peer AND mask = local AND mask), prefix lengths 0, 31 and 32
\* included.
C19_PeerInSubnet ==
    C19_Computed =>
        LET local == ToHost(tunRet.ip)
            mask == ToHost(tunRet.netmask)
            peer == ToHost(tunRet.peer)
            network == And32(local, mask)
        IN  /\ peer = IF PlusOne(network) = local
                      THEN PlusOne(PlusOne(network))
                      ELSE PlusOne(network)
            /\ peer # local
            /\ And32(peer, mask) = network

\* ------------------------------------------------------- C20
\* C20: for every datagram given to the macOS write, the four bytes put before
\* it are AF_INET6 in network order exactly when the buffer is not empty and
\* the high nibble of its first byte is 6, and AF_INET in network order in
\* every other case (nibble 4, another nibble, an empty buffer); the bytes
\* after them are the input unchanged, and the count returned leaves the four
\* bytes out.
C20_FamilyPrefix ==
    (platform = "macos" /\ tunRet.op = "write" /\ tunRet.kernel = "data")
        => LET buffer == tunRet.data
               six == Size(buffer) > 0 /\ ByteAt(buffer, 0) \div 16 = 6
           IN  /\ Take(tunRet.wire, 4)
                    = Dg(IF six THEN <<0, 0, 0, 30>> ELSE <<0, 0, 0, 2>>, 0)
               /\ Drop(tunRet.wire, 4) = buffer
               /\ Size(tunRet.wire) = Size(buffer) + 4
               /\ tunRet.val = Size(buffer)
               /\ tunRet.val = tunRet.n - 4

\* An IPv6 datagram has been written: 00 00 00 1E, then its two bytes.
C20_Witness ==
    /\ platform = "macos"
    /\ tunRet.op = "write"
    /\ tunRet.kernel = "data"
    /\ tunRet.data = Dg(<<96, 7>>, 0)
    /\ tunRet.wire = Dg(<<0, 0, 0, 30, 96, 7>>, 0)
    /\ tunRet.val = 2

\* ------------------------------------------------------- C21
\* The last open() got as far as connecting to a utun unit.
C21_Connected == tunRet.op = "open" /\ "tried" \in DOMAIN tunRet

\* C21: after a successful open the device name is the name of the interface
\* that was allocated. On macOS it is utun<N> for the unit N whose connect
\* succeeded; an empty name or one that is not utun<N> makes open try the
\* units in ascending order and keep the first that connects, and a name
\* utun<N> makes it try unit N alone, failing without a scan when that
\* connect is refused. On Linux the name holds no template.
C21_NameOfUnit ==
    /\ C21_Connected =>
          LET tried == tunRet.tried
              unit == tried[Len(tried)]
              requested == RequestedUnit(tunRet.name)
          IN  /\ requested >= 0 => tried = <<requested>>
              /\ requested < 0 =>
                    /\ \A k \in 1..Len(tried) : tried[k] = k - 1
                    /\ \A k \in 1..(Len(tried) - 1) : tried[k] \in tunRet.busy
              /\ tunRet.val <=> unit \notin tunRet.busy
              /\ tunRet.val =>
                    /\ deviceName = <<"u", "t", "u", "n">> \o Itoa(unit)
                    /\ utunNumber = unit
                    /\ fd >= 0
              /\ ~tunRet.val => fd < 0
    /\ (tunRet.op = "open" /\ tunRet.val /\ platform = "linux") =>
          /\ deviceName # <<>>
          /\ Len(deviceName) < IFNAMSIZ
          /\ \A k \in 1..Len(deviceName) : deviceName[k] # "%"

\* A scan has passed three taken units and opened utun3.
C21_Witness ==
    /\ C21_Connected
    /\ tunRet.val
    /\ tunRet.name = <<>>
    /\ tunRet.tried = <<0, 1, 2, 3>>
    /\ deviceName = <<"u", "t", "u", "n", "3">>

\* ------------------------------------------------------- C22
\* The step hands the bridge a message whose sender is not in the registry.
C22_FromStranger == nIn' = nIn + 1 /\ lastIn'.sender \notin peers

\* C22: on the ingress path a {sender, payload} whose sender is not a member
\* of the registry when it is dispatched is dropped: nothing is written to
\* the TUN device, no frame is sent in reply, and the registry is unchanged.
C22_StrangersDropped ==
    [][C22_FromStranger => UNCHANGED <<tunWrites, replies, peers>>]_vars

\* A well-formed IP packet has come from a peer outside a registry that has
\* a member, and nothing has been written.
C22_Witness ==
    /\ nIn = 1
    /\ lastIn.verdict # "none"
    /\ lastIn.sender = 303
    /\ lastIn.bytes = <<2, 0, 2, 69, 7>>
    /\ peers = {202}
    /\ tunWrites = <<>>
    /\ replies = <<>>

\* ------------------------------------------------------- C23
\* The step hands the bridge a frame from a member whose type byte is none of
\* 1 to 4, or whose declared length is more than the datagram's size.
C23_BadFrame ==
    /\ nIn' = nIn + 1
    /\ lastIn'.sender \in peers
    /\ Len(lastIn'.bytes) >= 3
    /\ \/ lastIn'.bytes[1] \notin {1, 2, 3, 4}
       \/ lastIn'.bytes[2] * 256 + lastIn'.bytes[3] > Len(lastIn'.bytes)

\* C23: an inbound frame from a registered peer whose type byte is not one
\* of 1, 2, 3, 4, or whose declared length exceeds the size of the datagram
\* received, is dropped: nothing is written to the TUN device, nothing is
\* sent back to the sender, and the malformed counter goes up by exactly one.
C23_MalformedDropped ==
    [][C23_BadFrame => /\ UNCHANGED <<tunWrites, replies>>
                       /\ malformed' = malformed + 1]_vars

\* Scenario S4: FF 00 00 has come from member 202 and the counter is 1.
C23_Witness ==
    /\ lastIn.verdict # "none"
    /\ lastIn.sender = 202
    /\ lastIn.bytes = <<255, 0, 0>>
    /\ 202 \in peers
    /\ malformed = 1
    /\ tunWrites = <<>>
    /\ replies = <<>>

\* ------------------------------------------------------- C24
\* The step delivers the notification `what` for p to the bridge.
C24_Delivered(what, p) == ev' # ev /\ ev'.kind = what /\ ev'.to = p

C24_InTurn ==
    \A p \in Others :
        /\ C24_Delivered("left", p) => lastNote[p] = "joined"
        /\ C24_Delivered("joined", p) => lastNote[p] # "joined"

C24_Settled ==
    (watch /\ \A t \in Threads : pc[t] = "idle") =>
        \A p \in Others : p \in peers <=> lastNote[p] = "joined"

\* C24 (as claimed): for every peer p and every interleaving of concurrent
\* addPeer, removePeer and clearPeers calls, the notifications the bridge
\* gets for p alternate, onUserJoined(p) first: onUserLeft(p) never comes
\* before the onUserJoined(p) of the same stay in the registry, and when all
\* calls have returned p is in the registry exactly when the last
\* notification for p was onUserJoined.
C24_NotificationsAlternate ==
    []C24_Settled /\ [][watch => C24_InTurn]_vars


\* ------------------------------------------------- C25: removals of nothing

\* Thread t is in a removePeer whose peerID is not in peers_ (about to erase,
\* or past an erase that found nothing), or in a clearPeers that found peers_
\* empty.
C25_NothingToRemove(t) ==
    \/ pc[t] = "rm_erase" /\ arg[t] \notin peers
    \/ pc[t] = "rm_ret" /\ trace[t] = <<>>
    \/ pc[t] = "clr_lock" /\ peers = {}
    \/ pc[t] \in {"clr_close", "clr_ret"} /\ pre[t] = {}

\* t executes a statement of its running call.
C25_Steps(t) == pc'[t] # pc[t]

\* C25: removePeer(p) for a p that is not a member, and clearPeers on an empty
\* registry, are no-ops: no statement of such a call changes the peer set,
\* closes or otherwise touches a transport session (a session the transport
\* has with p stays), calls the transport or notifies the bridge.
C25_RemovingNothingIsNoOp ==
    [][\A t \in Threads :
          C25_NothingToRemove(t) /\ C25_Steps(t)
          => /\ UNCHANGED <<peers, sessions, lastNote>>
             /\ ev' = NoEv
             /\ trace'[t] = <<>>]_vars

\* removePeer(p) has run its erase for a non-member p the transport has a
\* session with, and is about to return having called nothing.
C25_Witness ==
    \E t \in Threads :
        /\ pc[t] = "rm_ret" /\ trace[t] = <<>>
        /\ arg[t] \notin peers /\ arg[t] \in sessions

\* clearPeers has run on an empty registry and is about to return.
C25_ClearedNothing ==
    \E t \in Threads : pc[t] = "clr_ret" /\ pre[t] = {} /\ trace[t] = <<>>


\* ------------------------------------- C26: before initialize() succeeded

\* The calls the manager makes on ISteamNetworkingMessages.
C26_TransportCalls == {"send", "close", "accept"}

\* What the value-returning operations last returned is their failure value.
C26_FailureValues ==
    \A t \in Threads :
        /\ retval[t].op = "sendMessageToUser" => retval[t].val = FALSE
        /\ retval[t].op = "getPeerPing" => retval[t].val = -1
        /\ retval[t].op = "isPeerConnected" => retval[t].val = FALSE
        /\ retval[t].op = "getPeerConnectionType" => retval[t].val = "N/A"

\* The step calls nothing on the transport.
C26_NoTransportCall == ev' = ev \/ ev'.kind \notin C26_TransportCalls

\* A step taken while an addPeer is at its SESSION_HELLO send (and no
\* OnSessionRequest callback is at its accept) does not go through the null
\* interface pointer.
C26_AddPeerChecksInterface ==
    ((\E t \in Threads : pc[t] = "add_hello")
        /\ \A t \in Threads : pc[t] # "osr_find") => ~crashed'

\* C26 (as claimed): while m_pMessagesInterface is null (initialize() has not
\* succeeded), no manager operation calls the transport, the value-returning
\* ones have returned their failure value (false, -1, "N/A"), and addPeer does
\* not dereference the missing interface.
C26_UnavailableIsSafe ==
    /\ [](~iface => C26_FailureValues)
    /\ [][~iface => C26_NoTransportCall /\ C26_AddPeerChecksInterface]_vars


\* ------------------------------------------- C27: the device when not open

\* bool is_open() const { return fd_ >= 0; }
is_open == fd >= 0

\* std::string get_device_name() const { return deviceName_; }
get_device_name == deviceName

\* The last call left the device not open: none was made yet, an open()
\* that the system refused, or a close().
C27_LeftNotOpen ==
    \/ tunRet.op = "none"
    \/ tunRet.op = "open" /\ ~tunRet.val /\ tunRet.kernel # "none"
    \/ tunRet.op = "close"

\* The last call, made on a device that was not open, failed without a call
\* to the system: read and write -1 with no read(2)/write(2), the set_*
\* false with no command and no fcntl.
C27_FailedUntouched ==
    /\ tunRet.op \in {"read", "write"}
         => tunRet.val = -1 /\ tunRet.kernel = "closed"
    /\ tunRet.op \in {"set_mtu", "set_up", "set_non_blocking"}
         => tunRet.val = FALSE /\ tunRet.ran = <<>>
    /\ tunRet.op = "set_ip"
         => /\ tunRet.val = FALSE
            /\ IF platform = "linux" THEN tunRet.ran = <<>>
               ELSE tunRet.peer = <<>>
    /\ tunRet.op \in {"set_mtu", "set_up", "set_non_blocking", "set_ip"}
         => lastError = "TUN device not open"

\* A step that is a close() of a device that is not open changes nothing of it.
C27_CloseIdempotent ==
    (~is_open /\ tunRet'.op = "close")
        => UNCHANGED <<fd, deviceName, utunNumber, mtu, lastError, kfds>>

\* A step that is an open() of a device that is not open asks the system, and
\* succeeds when the system grants it.
C27_OpensAgain ==
    (~is_open /\ tunRet'.op = "open")
        => /\ tunRet'.kernel # "none"
           /\ tunRet'.kernel = "ok" => tunRet'.val /\ is_open'

\* C27: whenever the device is not open (never opened, open failed, or
\* closed) is_open() is false, get_device_name() is empty, read and write
\* return -1, and set_ip, set_mtu, set_up and set_non_blocking return false
\* having run no platform command; close() on such a device changes nothing,
\* and open() on it succeeds when the system grants the device.
C27_ClosedDiscipline ==
    /\ [](C27_LeftNotOpen => ~is_open)
    /\ [](~is_open => get_device_name = <<>> /\ C27_FailedUntouched)
    /\ [][C27_CloseIdempotent /\ C27_OpensAgain]_vars

\* A device that was opened with an MTU of 1400 and closed again: set_mtu has
\* just been refused on it.
C27_Witness ==
    /\ ~is_open
    /\ mtu = 1400
    /\ tunRet = ConfigResult("set_mtu", FALSE, 1500, <<>>)
    /\ lastError = "TUN device not open"
    /\ kfds = {}

====
